---- MODULE Spec2Model ----
(***************************************************************************)
(* Immortal Chat: the Facebook webhook dispatch pipeline                    *)
(*   HTTP handler  -> signature check -> 200 -> goroutine                   *)
(*   Dispatcher    -> audit log goroutine, parse, classify, dedup,          *)
(*                    conversation get-or-create, SaveMessage, MarkProcessed*)
(* and the outbound gateway FacebookClient.SendReply.                       *)
(***************************************************************************)
EXTENDS Integers, Sequences, FiniteSets, TLC

\* ------------------------------------------------------------------ bounds
MaxRequests == 2        \* webhook POSTs the listener receives in one run
MaxFaults == 1          \* store calls that fail or panic in one run
MaxUserEvents == 2      \* user-message events carried by all POSTs of one run
MaxReplies == 2         \* reply requests the dashboard handler receives in one run
MaxCallers == 4         \* goroutines that call a method of PanicMode in one run
MaxOpens == 2           \* times the admin opens a chat window in one run
MaxClients == 2         \* WebSocket clients that connect to the LogHub in one run
MaxWrites == 3          \* calls of LogHub.Write by logging goroutines in one run
broadcastBufferSize == 2    \* capacity of LogHub.broadcast (256 in the source)
clientBufferSize == 1       \* capacity of Client.send (64 in the source)

\* --------------------------------------------------------- program constants
maxRetries == 3         \* SendReply: const maxRetries = 3
BackoffUnitMs == 500    \* SendReply: time.Duration(attempt) * 500ms
DefaultTenantID == 1    \* processMessage: tenantID := 1

Absent == "<absent>"    \* a JSON field that is not in the document
AppSecret == "fb_app_secret"

ReqIds == 1..MaxRequests
ReplyIds == 1..MaxReplies
Callers == 1..MaxCallers
ClientIds == 1..MaxClients

\* ----------------------------------------------------------- request bodies
\* One raw messaging event of the envelope; optional fields are Absent.
\* message.present = FALSE stands for an event without a "message" object.
RawMessage(mid, text, echo) ==
    [present |-> TRUE, mid |-> mid, text |-> text, is_echo |-> echo,
     attachments |-> <<>>]

NoRawMessage ==
    [present |-> FALSE, mid |-> Absent, text |-> Absent, is_echo |-> Absent,
     attachments |-> <<>>]

RawEvent(sender, recipient, message, delivery, read) ==
    [sender |-> sender, recipient |-> recipient, message |-> message,
     delivery |-> delivery, read |-> read]

EvUser1 == RawEvent("u1", "p1", RawMessage("m1", "hello", Absent), Absent, Absent)
EvUser2 == RawEvent("u1", "p1", RawMessage("m2", "again", "false"), Absent, Absent)
EvEcho == RawEvent("p1", "u1", RawMessage("m3", "echo", "true"), Absent, Absent)
EvDelivery == RawEvent("u1", "p1", NoRawMessage, "{mids}", Absent)
EvRead == RawEvent("u1", "p1", NoRawMessage, Absent, "{watermark}")
EvMsgWithRead == RawEvent("u1", "p1", RawMessage("m2", "again", "false"), Absent, "{watermark}")
EvNoBody == RawEvent("u1", "p1", NoRawMessage, Absent, Absent)
\* a message event whose "sender" object is missing
EvNoSender == RawEvent(Absent, "p1", RawMessage("m4", "who", Absent), Absent, Absent)

\* a user message that carries a video and no text
EvVideo ==
    RawEvent("u1", "p1",
             [RawMessage("m5", Absent, Absent) EXCEPT
                 !.attachments = << [type |-> "video", url |-> "https://cdn/v.mp4"] >>],
             Absent, Absent)
\* a user message with empty text and no attachments
EvEmptyText == RawEvent("u1", "p1", RawMessage("m6", "", Absent), Absent, Absent)
\* two user messages, from two users, whose "mid" field is missing
EvNoMid1 == RawEvent("u1", "p1", RawMessage(Absent, "first", Absent), Absent, Absent)
EvNoMid2 == RawEvent("u2", "p1", RawMessage(Absent, "second", Absent), Absent, Absent)

\* A raw body: either bytes that are not a JSON document, or a document
\* with its entries, each entry carrying a list of messaging events.
Truncated == [json |-> FALSE, entry |-> <<>>]
Doc(entries) == [json |-> TRUE, entry |-> entries]
\* a document cut off after its first, complete, messaging event
TruncatedAfterEvent == [json |-> FALSE, entry |-> << <<EvUser1>> >>]

Bodies ==
    { Truncated,
      TruncatedAfterEvent,
      Doc(<< <<EvUser1, EvNoSender>> >>),
      Doc(<< <<EvUser1>> >>),
      Doc(<< <<EvUser1, EvUser2>> >>),
      Doc(<< <<EvEcho, EvDelivery>>, <<EvUser2>> >>),
      Doc(<< <<EvRead, EvNoBody, EvMsgWithRead>> >>),
      Doc(<< <<EvVideo, EvEmptyText>> >>),
      Doc(<< <<EvNoMid1, EvNoMid2>> >>) }

\* ------------------------------------------------------ signature verifier
\* HMAC-SHA256 and hex encoding as symbolic terms: two digests are equal
\* exactly when algorithm, key and payload are equal.
HmacSha256(key, payload) == [alg |-> "hmac-sha256", key |-> key, payload |-> payload]
HexEncodeToString(digest) == [enc |-> "hex", of |-> digest]
Garbage == [enc |-> "none", of |-> [alg |-> "none", key |-> "", payload |-> Truncated]]

\* The header value: NoHeader when the header is missing (Get returns ""),
\* else the text before the digest and the digest text.
NoHeader == [prefix |-> "", rest |-> Garbage]
Header(prefix, rest) == [prefix |-> prefix, rest |-> rest]

ValidHeader(body) ==
    Header("sha256=", HexEncodeToString(HmacSha256(AppSecret, body)))

\* The POSTs the listener receives: every body correctly signed, and one
\* body with each kind of bad header (missing, wrong key, signature of
\* another body, wrong scheme).
Posts ==
    {[body |-> b, sig |-> ValidHeader(b)] : b \in Bodies}
    \cup {[body |-> Doc(<< <<EvUser1>> >>), sig |-> h] : h \in
           { NoHeader,
             Header("sha256=", HexEncodeToString(HmacSha256("other_secret",
                                                            Doc(<< <<EvUser1>> >>)))),
             ValidHeader(Truncated),
             Header("sha1=", HexEncodeToString(HmacSha256(AppSecret,
                                                          Doc(<< <<EvUser1>> >>)))) }}
    \cup {[body |-> Truncated, sig |-> NoHeader]}

HasPrefix(h, p) == h.prefix = p
TrimPrefix(h, p) == h.rest

mutValidateSignatureAcceptAll(payload, signatureHeader) == TRUE

validateSignature(payload, signatureHeader) ==
    IF ~HasPrefix(signatureHeader, "sha256=") THEN FALSE
    ELSE LET expectedSignature == TrimPrefix(signatureHeader, "sha256=")
             computedSignature == HexEncodeToString(HmacSha256(AppSecret, payload))
         IN computedSignature = expectedSignature

\* ------------------------------------------------------- payload classifier
\* json.Unmarshal into dto.FacebookWebhookRequest: an absent string field
\* decodes to "", an absent object to a nil pointer, absent is_echo to false.
DecodeString(v) == IF v = Absent THEN "" ELSE v

\* one element of "attachments": its "type" and its "payload"."url"
DecodeAttachment(raw) ==
    [type |-> DecodeString(raw.type), url |-> DecodeString(raw.url)]

DecodeMessaging(raw) ==
    [Sender |-> DecodeString(raw.sender),
     Recipient |-> DecodeString(raw.recipient),
     Message |-> [isNil |-> ~raw.message.present,
                  MID |-> DecodeString(raw.message.mid),
                  Text |-> DecodeString(raw.message.text),
                  Attachments |-> [k \in 1..Len(raw.message.attachments) |->
                                     DecodeAttachment(raw.message.attachments[k])],
                  IsEcho |-> (raw.message.is_echo = "true")],
     Delivery |-> [isNil |-> (raw.delivery = Absent)],
     Read |-> [isNil |-> (raw.read = Absent)]]

RECURSIVE FlattenEntries(_)
\* a loop that takes the entries from the last one to the first
mutFlattenEntriesLastFirst(entries) ==
    IF entries = <<>> THEN <<>>
    ELSE FlattenEntries(Tail(entries))
         \o [k \in 1..Len(Head(entries)) |-> DecodeMessaging(Head(entries)[k])]

\* the order in which "for entry / for messaging" visits the events
FlattenEntries(entries) ==
    IF entries = <<>> THEN <<>>
    ELSE [k \in 1..Len(Head(entries)) |-> DecodeMessaging(Head(entries)[k])]
         \o FlattenEntries(Tail(entries))

\* a decoder that keeps what it read before the syntax error
mutUnmarshalLenient(payload) ==
    [err |-> FALSE, events |-> FlattenEntries(payload.entry)]

Unmarshal(payload) ==
    IF payload.json THEN [err |-> FALSE, events |-> FlattenEntries(payload.entry)]
    ELSE [err |-> TRUE, events |-> <<>>]

mutGetMessageTypeTextFirst(m) ==
    IF m.Message.isNil THEN ""
    ELSE IF m.Message.Text # "" THEN "text"
    ELSE IF Len(m.Message.Attachments) > 0 THEN m.Message.Attachments[1].type
    ELSE "unknown"

mutIsUserMessageKeepsEcho(m) ==
    ~m.Message.isNil /\ m.Delivery.isNil /\ m.Read.isNil

mutIsUserMessageIgnoresRead(m) ==
    ~m.Message.isNil /\ ~m.Message.IsEcho /\ m.Delivery.isNil

IsUserMessage(m) ==
    IF m.Message.isNil THEN FALSE
    ELSE IF m.Message.IsEcho THEN FALSE
    ELSE IF ~m.Delivery.isNil THEN FALSE
    ELSE IF ~m.Read.isNil THEN FALSE
    ELSE TRUE

RECURSIVE CountUser(_)
CountUser(events) ==
    IF events = <<>> THEN 0
    ELSE (IF IsUserMessage(Head(events)) THEN 1 ELSE 0) + CountUser(Tail(events))

UserEventsIn(payload) == CountUser(Unmarshal(payload).events)

GetMessageID(m) == IF ~m.Message.isNil THEN m.Message.MID ELSE ""

GetMessageType(m) ==
    IF m.Message.isNil THEN ""
    ELSE IF Len(m.Message.Attachments) > 0 THEN m.Message.Attachments[1].type
    ELSE IF m.Message.Text # "" THEN "text"
    ELSE "unknown"

GetContent(m) ==
    IF m.Message.isNil THEN ""
    ELSE IF m.Message.Text # "" THEN m.Message.Text
    ELSE IF Len(m.Message.Attachments) > 0 /\ m.Message.Attachments[1].url # ""
         THEN m.Message.Attachments[1].url
    ELSE ""

\* ------------------------------------------------------------------- state
VARIABLES
    reqs,           \* per POST: handler position, body, header, response
    tasks,          \* per POST: the dispatch goroutine (ProcessWebhook)
    audit,          \* per POST: the audit-log goroutine of ProcessWebhook
    webhook_logs,   \* table webhook_logs
    conversations,  \* table conversations
    messages,       \* table messages
    dedup,          \* Redis keys dedup:msg:<id>
    calls,          \* history: store calls made, per request and event
    faults,         \* history: number of injected store faults
    alive,          \* the serving process has not crashed
    send,           \* one FacebookClient.SendReply call: position and history
    replies,        \* per reply request: DashboardHandler.SendReply position
    pages,          \* table pages: access token and active flag per page
    sends,          \* history: outbound send attempts begun by reply requests
    verify,         \* one GET /webhook/facebook: query values and response
    probe,          \* one messaging event given to the classifier
    mu,             \* PanicMode.mu, the sync.RWMutex
    panicMode,      \* PanicMode: active, reason, activatedBy
    callers,        \* per goroutine: its call of a PanicMode method
    committed,      \* history: the PanicMode values left behind by Unlock
    opens,          \* history: the GET /api/conversations/{id}/messages handled
    hub             \* LogHub: broadcast channel, clients and their send channels

webhookVars == <<reqs, tasks, audit, webhook_logs, conversations, messages,
                 dedup, calls, faults, alive>>
sendVars == <<send>>
replyVars == <<replies, pages, sends>>
pureVars == <<verify, probe>>
panicVars == <<mu, panicMode, callers, committed>>
readVars == <<opens>>
hubVars == <<hub>>
vars == <<reqs, tasks, audit, webhook_logs, conversations, messages, dedup,
          calls, faults, alive, send, replies, pages, sends, verify, probe,
          mu, panicMode, callers, committed, opens, hub>>

NoReq == [st |-> "none", body |-> Truncated, sig |-> NoHeader, status |-> 0,
          readErr |-> FALSE, did |-> <<>>]
NoSend == [pc |-> "idle", attempt |-> 0, backoff |-> 0, result |-> "", log |-> <<>>]
NoTask == [pc |-> "none", i |-> 0, conv |-> 0, processedCount |-> 0,
           skippedCount |-> 0, end |-> "", after |-> {}]

\* a reply request that has not arrived
NoReply == [pc |-> "none", conversation_id |-> 0, text |-> "", platformID |-> "",
            pageID |-> "", accessToken |-> "", attempt |-> 0, err |-> "",
            status |-> 0, message |-> ""]

\* table pages as the operator filled it: two connected pages
InitialPages ==
    [p \in {"p1", "p2"} |->
        [access_token |-> IF p = "p1" THEN "tok_p1" ELSE "tok_p2", is_active |-> TRUE]]

NoVerify == [pc |-> "idle", mode |-> Absent, token |-> Absent, challenge |-> Absent,
             status |-> 0, body |-> ""]

NoProbe == [pc |-> "idle",
            raw |-> RawEvent(Absent, Absent, NoRawMessage, Absent, Absent),
            isUser |-> FALSE, id |-> "", type |-> "", content |-> ""]

\* the reply path and the outbound gateway before any reply request
InitOutbound ==
    /\ send = NoSend
    /\ replies = [q \in ReplyIds |-> NoReply]
    /\ pages = InitialPages
    /\ sends = {}

InitPure ==
    /\ verify = NoVerify
    /\ probe = NoProbe

\* NewLogHub: no client, empty channels; a client before ServeWS made it
NoClient == [pc |-> "none", send |-> <<>>, closed |-> FALSE, closes |-> 0]
NoWrite == [p |-> <<>>, n |-> 0, err |-> "", queued |-> FALSE, full |-> FALSE]
NoBroadcast == [msg |-> <<>>, delivered |-> {}, skipped |-> {}]
NewLogHub ==
    [broadcast |-> <<>>, clients |-> {},
     conn |-> [c \in ClientIds |-> NoClient],
     nwrites |-> 0, lastWrite |-> NoWrite, lastBroadcast |-> NoBroadcast,
     panicked |-> FALSE]

InitHub == hub = NewLogHub

\* var globalPanicMode = &PanicMode{}: the zero value, nobody calling
ZeroPanicMode == [active |-> FALSE, reason |-> "", activatedBy |-> ""]
NoCaller == [pc |-> "idle", op |-> "", reason |-> "", by |-> "",
             seen |-> ZeroPanicMode]

InitPanic ==
    /\ mu = [w |-> 0, readers |-> {}]
    /\ panicMode = ZeroPanicMode
    /\ callers = [p \in Callers |-> NoCaller]
    /\ committed = {ZeroPanicMode}
    /\ opens = <<>>

\* the webhook pipeline before any POST: empty stores
InitWebhook ==
    /\ reqs = [r \in ReqIds |-> NoReq]
    /\ tasks = [r \in ReqIds |-> NoTask]
    /\ audit = [r \in ReqIds |-> "none"]
    /\ webhook_logs = {}
    /\ conversations = {}
    /\ messages = {}
    /\ dedup = {}
    /\ calls = {}
    /\ faults = 0
    /\ alive = TRUE

Init == InitWebhook /\ InitOutbound /\ InitPure /\ InitPanic /\ InitHub

\* ------------------------------------------------- HTTP webhook handler
\* The statement HandleFacebookEvent executes after the given one, once the
\* signature is accepted: WriteHeader/Write, then "go func()", then return.
mutHandlerAfterSpawnFirst(step) ==
    CASE step = "validate" -> "spawn"
      [] step = "spawn" -> "respond"
      [] step = "respond" -> "return"

HandlerAfter(step) ==
    CASE step = "validate" -> "respond"
      [] step = "respond" -> "spawn"
      [] step = "spawn" -> "return"

RECURSIVE SumUserEvents(_)
SumUserEvents(S) ==
    IF S = {} THEN 0
    ELSE LET q == CHOOSE x \in S : TRUE
         IN UserEventsIn(reqs[q].body) + SumUserEvents(S \ {q})

UserEventsSoFar == SumUserEvents({q \in ReqIds : reqs[q].st # "none"})

\* The statements HandleFacebookEvent executes once the signature is
\* accepted, in the order it executes them.
RECURSIVE HandlerSteps(_)
HandlerSteps(step) ==
    IF HandlerAfter(step) = "return" THEN <<>>
    ELSE <<HandlerAfter(step)>> \o HandlerSteps(HandlerAfter(step))

\* HandleFacebookEvent for one POST. Step 1: read the body. Step 2: check
\* the signature header. Step 3: w.WriteHeader(200); w.Write(...).
\* Step 4: go func() { defer recover(); dispatcher.ProcessWebhook(...) }().
\* did lists the steps 3 and 4 in the order they were executed.
HandleFacebookEvent(r) ==
    /\ alive
    /\ reqs[r].st = "none"
    /\ \A q \in ReqIds : q < r => reqs[q].st # "none"
    /\ \E post \in Posts, readErr \in BOOLEAN :
         LET body == post.body
             sig == post.sig
             in == [NoReq EXCEPT !.st = "return", !.body = body, !.sig = sig,
                                 !.readErr = readErr]
             accepted == /\ ~readErr
                         /\ sig # NoHeader
                         /\ validateSignature(body, sig)
         IN /\ readErr => body = Truncated
            /\ UserEventsIn(body) + UserEventsSoFar <= MaxUserEvents
            /\ reqs' = [reqs EXCEPT ![r] =
                 IF readErr THEN [in EXCEPT !.status = 400]
                 ELSE IF sig = NoHeader THEN [in EXCEPT !.status = 403]
                 ELSE IF ~validateSignature(body, sig) THEN [in EXCEPT !.status = 403]
                 ELSE [in EXCEPT !.status = 200, !.did = HandlerSteps("validate")]]
            /\ tasks' = IF accepted THEN [tasks EXCEPT ![r].pc = "start"] ELSE tasks
    /\ UNCHANGED <<audit, webhook_logs, conversations, messages, dedup,
                   calls, faults, alive>>
    /\ UNCHANGED <<sendVars, replyVars, pureVars, panicVars, readVars, hubVars>>

\* ------------------------------------------------------------ store calls
\* What a store call can do: return normally, return an error, or panic.
FaultChoices == IF faults < MaxFaults THEN {"ok", "err", "panic"} ELSE {"ok"}

Inject(f) == faults' = IF f = "ok" THEN faults ELSE faults + 1

Call(r, i, op, res) == [r |-> r, i |-> i, op |-> op, res |-> res]

\* deferred recover() of ProcessWebhook, of the handler's goroutine and of
\* the audit-log goroutine: TRUE when a panic is caught there.
ProcessWebhookRecovers == TRUE
HandlerGoroutineRecovers == TRUE
mutAuditGoroutineNoRecover == FALSE
AuditGoroutineRecovers == TRUE

\* ProcessWebhook: bgCtx := context.Background(), the context given to
\* processMessage and its store calls, instead of the ctx parameter (the
\* handler's r.Context())
mutBgCtxIsRequestContext == "request"

bgCtx == "background"

\* What a store call returns under a context: the request context is
\* cancelled once the handler has returned, and a call made with it then
\* fails with "context canceled" where it would have succeeded.
WithContext(r, ctx, f) ==
    IF ctx = "request" /\ reqs[r].st = "return" /\ f = "ok" THEN "err" ELSE f

\* RedisRepository.IsDuplicate: GET dedup:msg:<id>; redis.Nil means "not seen"
buildDedupKey(eventID) == <<"dedup:msg:", eventID>>
IsDuplicate(keys, eventID) == buildDedupKey(eventID) \in keys
\* RedisRepository.MarkProcessed: SET key value EX ttl
MarkProcessed(keys, eventID) == keys \cup {buildDedupKey(eventID)}

\* conversations: UNIQUE KEY unique_conversation (tenant_id, platform_id, page_id)
mutNoUniqueConversation(rows, tenantID, platformID, pageID) == FALSE

unique_conversation(rows, tenantID, platformID, pageID) ==
    \E c \in rows : /\ c.tenant_id = tenantID
                    /\ c.platform_id = platformID
                    /\ c.page_id = pageID

SelectConversation(rows, tenantID, platformID, pageID) ==
    {c \in rows : /\ c.tenant_id = tenantID
                  /\ c.platform_id = platformID
                  /\ c.page_id = pageID}

AnyId(rowset) == (CHOOSE c \in rowset : TRUE).id

InsertConversation(rows, tenantID, platformID, pageID) ==
    rows \cup {[id |-> Cardinality(rows) + 1, tenant_id |-> tenantID,
                platform_id |-> platformID, page_id |-> pageID,
                last_message_content |-> Absent, last_message_at |-> 0,
                tags |-> <<>>, status |-> "unread"]}

\* messages.type is ENUM('text','image','file','sticker','voice')
MessageTypes == {"text", "image", "file", "sticker", "voice"}

\* What the INSERT does with a type the column does not have: a server in
\* strict mode rejects the statement, any other stores the empty string.
\* The DSN sets no sql_mode, so the server's setting decides.
InsertResult(type, strict) ==
    IF type \in MessageTypes THEN "ok"
    ELSE IF strict THEN "err"
    ELSE "truncated"

StoredType(type) == IF type \in MessageTypes THEN type ELSE ""

\* messages: the only key is the AUTO_INCREMENT id, so the
\* "ON DUPLICATE KEY UPDATE" branch of SaveMessage is never taken.
SaveMessageRow(rows, msg) ==
    rows \cup {[id |-> Cardinality(rows) + 1,
                conversation_id |-> msg.ConversationID,
                sender_id |-> msg.SenderID,
                sender_type |-> msg.SenderType,
                content |-> msg.Content,
                type |-> StoredType(msg.Type),
                external_msg_id |-> msg.ExternalMsgID]}

SaveLogRow(rows, log) ==
    rows \cup {[id |-> Cardinality(rows) + 1, platform |-> log.Platform,
                payload_json |-> log.PayloadJSON, status |-> log.Status,
                retry_count |-> log.RetryCount]}

\* ---------------------------------------------------------- the dispatcher
Events(r) == Unmarshal(reqs[r].body).events
Current(r) == Events(r)[tasks[r].i]

\* A panic inside ProcessWebhook: the deferred recover ends the call.
Panicked(t) == [t EXCEPT !.pc = "done", !.end = "panicked"]
PanicAlive == alive /\ (ProcessWebhookRecovers \/ HandlerGoroutineRecovers)

\* The head of the loop over the events, from index i on: events that are
\* not user messages are counted as skipped; the first user message goes to
\* processMessage; past the last event the counts are logged.
RECURSIVE LoopHead(_, _)
LoopHead(events, t) ==
    IF t.i > Len(events) THEN [t EXCEPT !.pc = "done", !.end = "completed"]
    ELSE IF ~IsUserMessage(events[t.i])
         THEN LoopHead(events, [t EXCEPT !.i = @ + 1, !.skippedCount = @ + 1])
    ELSE [t EXCEPT !.pc = "IsDuplicate"]

\* The loop of ProcessWebhook after processMessage returned for one event:
\* count it when err == nil, and go on with the next event in both cases.
mutAfterEventReturnOnError(events, t, err) ==
    IF err THEN [t EXCEPT !.pc = "done", !.end = "completed"]
    ELSE LoopHead(events, [t EXCEPT !.i = @ + 1, !.processedCount = @ + 1])

AfterEvent(events, t, err) ==
    IF err THEN LoopHead(events, [t EXCEPT !.i = @ + 1])
    ELSE LoopHead(events, [t EXCEPT !.i = @ + 1, !.processedCount = @ + 1])

\* history: the events the loop skipped between two positions of a task
SkippedBetween(r, events, from, to) ==
    {Call(r, k, "classify", "skipped") :
        k \in {j \in from..(to.i - 1) : j <= Len(events) /\ ~IsUserMessage(events[j])}}

\* ProcessWebhook up to the first store call of the loop: start the
\* audit-log goroutine, parse, classify.
ProcessWebhook_Start(r) ==
    /\ alive
    /\ tasks[r].pc = "start"
    /\ audit' = [audit EXCEPT ![r] = "spawned"]
    /\ LET fbPayload == Unmarshal(reqs[r].body)
           finished == {q \in ReqIds : tasks[q].pc = "done"}
           t == IF fbPayload.err
                THEN [tasks[r] EXCEPT !.pc = "done", !.end = "parse_failed",
                                      !.after = finished]
                ELSE LoopHead(fbPayload.events,
                              [tasks[r] EXCEPT !.i = 1, !.after = finished])
       IN /\ tasks' = [tasks EXCEPT ![r] = t]
          /\ calls' = calls \cup SkippedBetween(r, fbPayload.events, 1, t)
    /\ UNCHANGED <<reqs, webhook_logs, conversations, messages, dedup,
                   faults, alive>>
    /\ UNCHANGED <<sendVars, replyVars, pureVars, panicVars, readVars, hubVars>>

\* ProcessWebhook step 1: webhookLog := &domain.WebhookLog{...}
mutNewWebhookLogProcessed(platform, payload) ==
    [Platform |-> platform, PayloadJSON |-> payload,
     Status |-> "processed", RetryCount |-> 0]

NewWebhookLog(platform, payload) ==
    [Platform |-> platform, PayloadJSON |-> payload,
     Status |-> "pending", RetryCount |-> 0]

\* The audit-log goroutine: webhookRepo.SaveLog(context.Background(), log)
AuditSaveLog(r) ==
    /\ alive
    /\ audit[r] = "spawned"
    /\ \E f \in FaultChoices :
         /\ Inject(f)
         /\ audit' = [audit EXCEPT ![r] = f]
         /\ webhook_logs' =
              IF f = "ok"
              THEN SaveLogRow(webhook_logs, NewWebhookLog("facebook", reqs[r].body))
              ELSE webhook_logs
         /\ alive' = IF f = "panic" THEN AuditGoroutineRecovers ELSE alive
    /\ UNCHANGED <<reqs, tasks, conversations, messages, dedup, calls>>
    /\ UNCHANGED <<sendVars, replyVars, pureVars, panicVars, readVars, hubVars>>

\* One store call of processMessage for request r: the call made (op, res),
\* and the task after it (t); the loop runs on to its next store call.
StoreCall(r, op, res, t) ==
    /\ tasks' = [tasks EXCEPT ![r] = t]
    /\ calls' = calls \cup {Call(r, tasks[r].i, op, res)}
                       \cup SkippedBetween(r, Events(r), tasks[r].i + 1, t)
    /\ alive' = IF res = "panic" THEN PanicAlive ELSE alive

\* processMessage after the dedup check returned res: an error is returned
\* to the loop (event abandoned), a duplicate returns nil, else go on.
mutAfterIsDuplicateFailOpen(events, t, res) ==
    CASE res = "panic" -> Panicked(t)
      [] res = "true" -> AfterEvent(events, t, FALSE)
      [] OTHER -> [t EXCEPT !.pc = "Select"]

AfterIsDuplicate(events, t, res) ==
    CASE res = "panic" -> Panicked(t)
      [] res = "err" -> AfterEvent(events, t, TRUE)
      [] res = "true" -> AfterEvent(events, t, FALSE)
      [] OTHER -> [t EXCEPT !.pc = "Select"]

\* processMessage step 1: d.dedupRepo.IsDuplicate(ctx, messageID)
processMessage_IsDuplicate(r) ==
    /\ alive
    /\ tasks[r].pc = "IsDuplicate"
    /\ \E g \in FaultChoices :
         LET f == WithContext(r, bgCtx, g)
             messageID == GetMessageID(Current(r))
             isDup == IsDuplicate(dedup, messageID)
             res == IF f = "ok" THEN (IF isDup THEN "true" ELSE "false") ELSE f
         IN /\ Inject(g)
            /\ StoreCall(r, "IsDuplicate", res,
                         AfterIsDuplicate(Events(r), tasks[r], res))
    /\ UNCHANGED <<reqs, audit, webhook_logs, conversations, messages, dedup>>
    /\ UNCHANGED <<sendVars, replyVars, pureVars, panicVars, readVars, hubVars>>

\* GetOrCreateByPlatformID, first statement: SELECT id FROM conversations
processMessage_Select(r) ==
    /\ alive
    /\ tasks[r].pc = "Select"
    /\ \E g \in FaultChoices :
         LET f == WithContext(r, bgCtx, g)
             m == Current(r)
             found == SelectConversation(conversations, DefaultTenantID,
                                         m.Sender, m.Recipient)
             res == IF f = "ok" THEN (IF found # {} THEN "hit" ELSE "miss") ELSE f
         IN /\ Inject(g)
            /\ StoreCall(r, "Select", res,
                 CASE f = "panic" -> Panicked(tasks[r])
                   [] f = "err" -> AfterEvent(Events(r), tasks[r], TRUE)
                   [] f = "ok" /\ found # {} ->
                        [tasks[r] EXCEPT !.pc = "SaveMessage", !.conv = AnyId(found)]
                   [] OTHER -> [tasks[r] EXCEPT !.pc = "Insert"])
    /\ UNCHANGED <<reqs, audit, webhook_logs, conversations, messages, dedup>>
    /\ UNCHANGED <<sendVars, replyVars, pureVars, panicVars, readVars, hubVars>>

\* GetOrCreateByPlatformID after sql.ErrNoRows: INSERT INTO conversations;
\* any error of the insert, a duplicate key included, is returned.
processMessage_Insert(r) ==
    /\ alive
    /\ tasks[r].pc = "Insert"
    /\ \E g \in FaultChoices :
         LET f == WithContext(r, bgCtx, g)
             m == Current(r)
             conflict == unique_conversation(conversations, DefaultTenantID,
                                             m.Sender, m.Recipient)
             res == IF f = "ok" THEN (IF conflict THEN "conflict" ELSE "ok") ELSE f
             rows == InsertConversation(conversations, DefaultTenantID,
                                        m.Sender, m.Recipient)
         IN /\ Inject(g)
            /\ conversations' = IF res = "ok" THEN rows ELSE conversations
            /\ StoreCall(r, "Insert", res,
                 CASE f = "panic" -> Panicked(tasks[r])
                   [] res = "ok" ->
                        [tasks[r] EXCEPT !.pc = "SaveMessage",
                                         !.conv = Cardinality(conversations) + 1]
                   [] OTHER -> AfterEvent(Events(r), tasks[r], TRUE))
    /\ UNCHANGED <<reqs, audit, webhook_logs, messages, dedup>>
    /\ UNCHANGED <<sendVars, replyVars, pureVars, panicVars, readVars, hubVars>>

\* processMessage after SaveMessage returned res: an error is returned to
\* the loop, else step 5 follows.
mutAfterSaveMessageMarksAnyway(events, t, res) ==
    CASE res = "panic" -> Panicked(t)
      [] OTHER -> [t EXCEPT !.pc = "MarkProcessed"]

AfterSaveMessage(events, t, res) ==
    CASE res = "panic" -> Panicked(t)
      [] res = "err" -> AfterEvent(events, t, TRUE)
      [] OTHER -> [t EXCEPT !.pc = "MarkProcessed"]

\* processMessage steps 3 and 4: build the message, messageRepo.SaveMessage
processMessage_SaveMessage(r) ==
    /\ alive
    /\ tasks[r].pc = "SaveMessage"
    /\ \E g \in FaultChoices, strict \in BOOLEAN :
         LET m == Current(r)
             f == IF WithContext(r, bgCtx, g) = "ok"
                     /\ InsertResult(GetMessageType(m), strict) = "err"
                  THEN "err"
                  ELSE WithContext(r, bgCtx, g)
             message == [ConversationID |-> tasks[r].conv,
                         SenderID |-> m.Sender,
                         SenderType |-> "user",
                         Content |-> GetContent(m),
                         Type |-> GetMessageType(m),
                         ExternalMsgID |-> GetMessageID(m)]
         IN /\ Inject(g)
            /\ messages' = IF f = "ok" THEN SaveMessageRow(messages, message)
                            ELSE messages
            /\ StoreCall(r, "SaveMessage", f,
                         AfterSaveMessage(Events(r), tasks[r], f))
    /\ UNCHANGED <<reqs, audit, webhook_logs, conversations, dedup>>
    /\ UNCHANGED <<sendVars, replyVars, pureVars, panicVars, readVars, hubVars>>

\* processMessage after MarkProcessed returned res: its error is logged
\* only (slog.Warn) and processMessage returns nil.
mutAfterMarkProcessedEscalates(events, t, res) ==
    CASE res = "panic" -> Panicked(t)
      [] res = "err" -> AfterEvent(events, t, TRUE)
      [] OTHER -> AfterEvent(events, t, FALSE)

AfterMarkProcessed(events, t, res) ==
    IF res = "panic" THEN Panicked(t)
    ELSE AfterEvent(events, t, FALSE)

\* processMessage step 5: d.dedupRepo.MarkProcessed(ctx, messageID, 24h)
processMessage_MarkProcessed(r) ==
    /\ alive
    /\ tasks[r].pc = "MarkProcessed"
    /\ \E g \in FaultChoices :
         LET f == WithContext(r, bgCtx, g)
             messageID == GetMessageID(Current(r))
         IN /\ Inject(g)
            /\ dedup' = IF f = "ok" THEN MarkProcessed(dedup, messageID) ELSE dedup
            /\ StoreCall(r, "MarkProcessed", f,
                         AfterMarkProcessed(Events(r), tasks[r], f))
    /\ UNCHANGED <<reqs, audit, webhook_logs, conversations, messages>>
    /\ UNCHANGED <<sendVars, replyVars, pureVars, panicVars, readVars, hubVars>>

\* ------------------------------------------------------- outbound gateway
\* What one HTTP exchange with the Graph API can produce: no response at all
\* (network error, 10 s timeout), or a status with a body that does or does
\* not parse and, for an error body, the code it carries.
ErrorCodes == {190, 4, 17, 32, 613, 10, 200, 299, 100, 1}

NoResponse == [net |-> FALSE, status |-> 0, parses |-> FALSE, code |-> 0]

Responses ==
    {NoResponse}
    \cup {[net |-> TRUE, status |-> 200, parses |-> p, code |-> 0] : p \in BOOLEAN}
    \cup {[net |-> TRUE, status |-> 500, parses |-> FALSE, code |-> 0]}
    \cup {[net |-> TRUE, status |-> 400, parses |-> TRUE, code |-> c] : c \in ErrorCodes}
    \cup {[net |-> TRUE, status |-> 200, parses |-> TRUE, code |-> 190],
          [net |-> TRUE, status |-> 401, parses |-> TRUE, code |-> 190],
          [net |-> TRUE, status |-> 500, parses |-> TRUE, code |-> 0]}

mutSendReplyAttemptPermissionIsOther(resp) ==
    IF ~resp.net THEN "other"
    ELSE IF resp.status # 200
         THEN IF ~resp.parses THEN "other"
              ELSE CASE resp.code = 190 -> "ErrTokenExpired"
                     [] resp.code \in {4, 17, 32, 613} -> "ErrRateLimited"
                     [] resp.code \in {10, 200} -> "ErrPermissionDenied"
                     [] OTHER -> "other"
    ELSE "nil"

\* sendReplyAttempt: the error it returns for a response ("nil" for none);
\* "other" stands for every error built with fmt.Errorf.
sendReplyAttempt(resp) ==
    IF ~resp.net THEN "other"
    ELSE IF resp.status # 200
         THEN IF ~resp.parses THEN "other"
              ELSE CASE resp.code = 190 -> "ErrTokenExpired"
                     [] resp.code \in {4, 17, 32, 613} -> "ErrRateLimited"
                     [] resp.code \in {10, 200, 299} -> "ErrPermissionDenied"
                     [] OTHER -> "other"
    ELSE "nil"

\* SendReply: "Don't retry on these specific errors"
mutDontRetryTokenOnly(err) == err = "ErrTokenExpired"
mutDontRetryAny(err) == TRUE

DontRetry(err) == err \in {"ErrTokenExpired", "ErrPermissionDenied", "ErrRateLimited"}

\* SendReply: backoff := time.Duration(attempt) * 500 * time.Millisecond
mutBackoffConstant(attempt) == BackoffUnitMs

Backoff(attempt) == attempt * BackoffUnitMs

\* SendReply is called: attempt := 1
SendReply_Call ==
    /\ send.pc = "idle"
    /\ send' = [send EXCEPT !.pc = "attempt", !.attempt = 1]
    /\ UNCHANGED <<webhookVars, replyVars, pureVars, panicVars, readVars, hubVars>>

\* One pass of the loop body up to the sleep.
SendReply_Attempt ==
    /\ send.pc = "attempt"
    /\ \E resp \in Responses :
         LET err == sendReplyAttempt(resp)
             entry == [kind |-> "attempt", n |-> send.attempt, resp |-> resp,
                       err |-> err, ms |-> 0]
             logged == [send EXCEPT !.log = Append(@, entry)]
         IN send' =
              IF err = "nil" THEN [logged EXCEPT !.pc = "done", !.result = "nil"]
              ELSE IF DontRetry(err) THEN [logged EXCEPT !.pc = "done", !.result = err]
              ELSE IF send.attempt < maxRetries
                   THEN [logged EXCEPT !.pc = "sleep",
                                       !.backoff = Backoff(send.attempt)]
              ELSE [logged EXCEPT !.pc = "done", !.attempt = @ + 1,
                                  !.result = "failed after 3 attempts"]
    /\ UNCHANGED <<webhookVars, replyVars, pureVars, panicVars, readVars, hubVars>>

\* time.Sleep(backoff), then attempt++
SendReply_Backoff ==
    /\ send.pc = "sleep"
    /\ send' = [send EXCEPT
                  !.log = Append(@, [kind |-> "sleep", n |-> send.attempt,
                                     resp |-> NoResponse, err |-> "",
                                     ms |-> send.backoff]),
                  !.pc = "attempt", !.attempt = @ + 1, !.backoff = 0]
    /\ UNCHANGED <<webhookVars, replyVars, pureVars, panicVars, readVars, hubVars>>

\* ------------------------------------------------------------ reply path
\* The bodies of POST /api/messages/reply: not JSON, no conversation id,
\* blank text, a conversation that exists after the first inbound message,
\* and one that does not.
ReplyRequests ==
    { [json |-> FALSE, conversation_id |-> 0, text |-> ""],
      [json |-> TRUE, conversation_id |-> 0, text |-> "hi"],
      [json |-> TRUE, conversation_id |-> 1, text |-> "  "],
      [json |-> TRUE, conversation_id |-> 1, text |-> "hi"],
      [json |-> TRUE, conversation_id |-> 7, text |-> "hi"] }

TrimSpace(text) == IF text = "  " THEN "" ELSE text

\* what the Graph API answers to an attempt of a reply request
ReplyResponses ==
    { NoResponse,
      [net |-> TRUE, status |-> 200, parses |-> TRUE, code |-> 0],
      [net |-> TRUE, status |-> 400, parses |-> TRUE, code |-> 190],
      [net |-> TRUE, status |-> 400, parses |-> TRUE, code |-> 4],
      [net |-> TRUE, status |-> 400, parses |-> TRUE, code |-> 10] }

\* a store call of the reply handler returns normally or with an error
ReplyFaultChoices == FaultChoices \ {"panic"}

\* writeJSON(w, status, response) and return
Respond(rp, status, message) ==
    [rp EXCEPT !.pc = "done", !.status = status, !.message = message]

\* GetPageAccessToken: SELECT access_token FROM pages
\*                     WHERE page_id = ? AND is_active = TRUE
ActivePages(rows, pageID) ==
    IF pageID \in DOMAIN rows /\ rows[pageID].is_active THEN {rows[pageID]} ELSE {}

\* DeactivatePage: UPDATE pages SET is_active = FALSE WHERE page_id = ?
DeactivatePage(rows, pageID) ==
    [p \in DOMAIN rows |->
        IF p = pageID THEN [rows[p] EXCEPT !.is_active = FALSE] ELSE rows[p]]

\* SaveOutboundMessage: the INSERT writes domain.SenderTypeAgent and type
\* 'text' whatever the message says, and no external_msg_id
mutSaveOutboundKeepsRole(rows, msg) ==
    rows \cup {[id |-> Cardinality(rows) + 1,
                conversation_id |-> msg.ConversationID,
                sender_id |-> msg.SenderID,
                sender_type |-> msg.SenderType,
                content |-> msg.Content,
                type |-> "text",
                external_msg_id |-> Absent]}

SaveOutboundMessageRow(rows, msg) ==
    rows \cup {[id |-> Cardinality(rows) + 1,
                conversation_id |-> msg.ConversationID,
                sender_id |-> msg.SenderID,
                sender_type |-> "agent",
                content |-> msg.Content,
                type |-> "text",
                external_msg_id |-> Absent]}

\* UpdateConversationLastMessage: UPDATE conversations
\*   SET last_message_content = ?, last_message_at = NOW() WHERE id = ?
\* last_message_at is 0 for NULL and counts the refreshes of the row.
UpdateConversationLastMessage(rows, conversationID, content) ==
    {IF c.id = conversationID
     THEN [c EXCEPT !.last_message_content = content, !.last_message_at = @ + 1]
     ELSE c : c \in rows}

\* DashboardHandler.SendReply up to step 1: decode and validate the body,
\* SELECT platform_id, page_id FROM conversations WHERE id = ?
Reply_Receive(q) ==
    /\ alive
    /\ replies[q].pc = "none"
    /\ \A k \in ReplyIds : k < q => replies[k].pc # "none"
    /\ \E req \in ReplyRequests, f \in ReplyFaultChoices :
         LET rp == [replies[q] EXCEPT !.conversation_id = req.conversation_id,
                                      !.text = req.text]
             found == {c \in conversations : c.id = req.conversation_id}
             row == CHOOSE c \in found : TRUE
             validated == /\ req.json
                          /\ req.conversation_id # 0
                          /\ TrimSpace(req.text) # ""
         IN /\ ~validated => f = "ok"
            /\ Inject(f)
            /\ replies' = [replies EXCEPT ![q] =
                 IF ~req.json THEN Respond(rp, 400, "invalid data")
                 ELSE IF req.conversation_id = 0
                      THEN Respond(rp, 400, "conversation id missing")
                 ELSE IF TrimSpace(req.text) = ""
                      THEN Respond(rp, 400, "message text must not be empty")
                 ELSE IF f = "err"
                      THEN Respond(rp, 500, "system error looking up the conversation")
                 ELSE IF found = {}
                      THEN Respond(rp, 404, "conversation not found")
                 ELSE [rp EXCEPT !.pc = "GetPageAccessToken",
                                 !.platformID = row.platform_id,
                                 !.pageID = row.page_id]]
    /\ UNCHANGED <<reqs, tasks, audit, webhook_logs, conversations, messages,
                   dedup, calls, alive>>
    /\ UNCHANGED <<pages, sends, sendVars, pureVars, panicVars, readVars, hubVars>>

\* step 2: mariadbRepo.GetPageAccessToken(ctx, pageID)
Reply_GetPageAccessToken(q) ==
    /\ alive
    /\ replies[q].pc = "GetPageAccessToken"
    /\ \E f \in ReplyFaultChoices :
         LET found == ActivePages(pages, replies[q].pageID)
             row == CHOOSE p \in found : TRUE
         IN /\ Inject(f)
            /\ replies' = [replies EXCEPT ![q] =
                 IF f = "err" \/ found = {}
                 THEN Respond(replies[q], 500,
                              "page configuration error, contact the administrator")
                 ELSE [replies[q] EXCEPT !.pc = "SendReply",
                                         !.accessToken = row.access_token,
                                         !.attempt = 1]]
    /\ UNCHANGED <<reqs, tasks, audit, webhook_logs, conversations, messages,
                   dedup, calls, alive>>
    /\ UNCHANGED <<pages, sends, sendVars, pureVars, panicVars, readVars, hubVars>>

\* The handler's answer to the error SendReply returned: deactivate the
\* page on ErrTokenExpired, else respond 429, 403 or 500 and return.
mutAfterSendReplyDeactivatesOnRateLimit(rp, err) ==
    CASE err \in {"ErrTokenExpired", "ErrRateLimited"} ->
           [rp EXCEPT !.pc = "DeactivatePage", !.err = err]
      [] err = "ErrPermissionDenied" ->
           Respond([rp EXCEPT !.err = err], 403,
                   "the page may not send messages, check the Facebook settings")
      [] OTHER ->
           Respond([rp EXCEPT !.err = err], 500,
                   "the message could not be sent, try again later")

mutAfterSendReplySavesAnyway(rp, err) ==
    IF err = "ErrTokenExpired" THEN [rp EXCEPT !.pc = "DeactivatePage", !.err = err]
    ELSE [rp EXCEPT !.pc = "SaveOutboundMessage", !.err = err]

AfterSendReply(rp, err) ==
    CASE err = "ErrTokenExpired" ->
           [rp EXCEPT !.pc = "DeactivatePage", !.err = err]
      [] err = "ErrRateLimited" ->
           Respond([rp EXCEPT !.err = err], 429,
                   "you are sending too fast, wait a few seconds")
      [] err = "ErrPermissionDenied" ->
           Respond([rp EXCEPT !.err = err], 403,
                   "the page may not send messages, check the Facebook settings")
      [] OTHER ->
           Respond([rp EXCEPT !.err = err], 500,
                   "the message could not be sent, try again later")

\* step 3: fbClient.SendReply, one attempt of its loop (with the sleep
\* that follows a retried failure), and the handler's answer to the error
\* SendReply returns
Reply_SendAttempt(q) ==
    /\ alive
    /\ replies[q].pc = "SendReply"
    /\ \E resp \in ReplyResponses :
         LET rp == replies[q]
             err == sendReplyAttempt(resp)
         IN /\ sends' = sends \cup
                  {[q |-> q, n |-> rp.attempt, page |-> rp.pageID,
                    active |-> pages[rp.pageID].is_active,
                    backoff |-> IF err # "nil" /\ ~DontRetry(err)
                                   /\ rp.attempt < maxRetries
                                THEN Backoff(rp.attempt) ELSE 0]}
            /\ replies' = [replies EXCEPT ![q] =
                 IF err = "nil" THEN [rp EXCEPT !.pc = "SaveOutboundMessage"]
                 ELSE IF DontRetry(err) THEN AfterSendReply(rp, err)
                 ELSE IF rp.attempt < maxRetries
                      THEN [rp EXCEPT !.attempt = @ + 1]
                 ELSE AfterSendReply(rp, "failed after 3 attempts")]
    /\ UNCHANGED <<webhookVars, pages, sendVars, pureVars, panicVars, readVars, hubVars>>

\* on ErrTokenExpired: mariadbRepo.DeactivatePage(ctx, pageID), whose error
\* is logged only, then the 400 with the advice to reconnect
Reply_DeactivatePage(q) ==
    /\ alive
    /\ replies[q].pc = "DeactivatePage"
    /\ \E f \in ReplyFaultChoices :
         /\ Inject(f)
         /\ pages' = IF f = "ok" THEN DeactivatePage(pages, replies[q].pageID)
                      ELSE pages
         /\ replies' = [replies EXCEPT ![q] =
              Respond(replies[q], 400,
                      "the page lost its connection to Facebook, reconnect it in Settings")]
    /\ UNCHANGED <<reqs, tasks, audit, webhook_logs, conversations, messages,
                   dedup, calls, alive>>
    /\ UNCHANGED <<sends, sendVars, pureVars, panicVars, readVars, hubVars>>

\* step 4: mariadbRepo.SaveOutboundMessage; its error is logged only
Reply_SaveOutboundMessage(q) ==
    /\ alive
    /\ replies[q].pc = "SaveOutboundMessage"
    /\ \E f \in ReplyFaultChoices :
         LET outboundMsg == [ConversationID |-> replies[q].conversation_id,
                             SenderID |-> "admin",
                             SenderType |-> "agent",
                             Content |-> replies[q].text]
         IN /\ Inject(f)
            /\ messages' = IF f = "ok"
                            THEN SaveOutboundMessageRow(messages, outboundMsg)
                            ELSE messages
            /\ replies' = [replies EXCEPT ![q].pc = "UpdateConversationLastMessage"]
    /\ UNCHANGED <<reqs, tasks, audit, webhook_logs, conversations, dedup,
                   calls, alive>>
    /\ UNCHANGED <<pages, sends, sendVars, pureVars, panicVars, readVars, hubVars>>

\* step 5: mariadbRepo.UpdateConversationLastMessage; its error is logged
\* only; then the 200
Reply_UpdateConversationLastMessage(q) ==
    /\ alive
    /\ replies[q].pc = "UpdateConversationLastMessage"
    /\ \E f \in ReplyFaultChoices :
         /\ Inject(f)
         /\ conversations' =
              IF f = "ok"
              THEN UpdateConversationLastMessage(conversations,
                     replies[q].conversation_id, replies[q].text)
              ELSE conversations
         /\ replies' = [replies EXCEPT ![q] = Respond(replies[q], 200, "sent")]
    /\ UNCHANGED <<reqs, tasks, audit, webhook_logs, messages, dedup,
                   calls, alive>>
    /\ UNCHANGED <<pages, sends, sendVars, pureVars, panicVars, readVars, hubVars>>

ReplyStep(q) ==
    \/ Reply_Receive(q)
    \/ Reply_GetPageAccessToken(q)
    \/ Reply_SendAttempt(q)
    \/ Reply_DeactivatePage(q)
    \/ Reply_SaveOutboundMessage(q)
    \/ Reply_UpdateConversationLastMessage(q)

NextReply == \E q \in ReplyIds : ReplyStep(q)

\* the stores after the first inbound message of user u1 to page p1 was
\* processed, in a process that has received nothing since its start
InitReply ==
    /\ reqs = [r \in ReqIds |-> NoReq]
    /\ tasks = [r \in ReqIds |-> NoTask]
    /\ audit = [r \in ReqIds |-> "none"]
    /\ webhook_logs = {}
    /\ conversations = InsertConversation({}, DefaultTenantID, "u1", "p1")
    /\ messages = SaveMessageRow({}, [ConversationID |-> 1, SenderID |-> "u1",
                                      SenderType |-> "user", Content |-> "hello",
                                      Type |-> "text", ExternalMsgID |-> "m1"])
    /\ dedup = MarkProcessed({}, "m1")
    /\ calls = {}
    /\ faults = 0
    /\ alive = TRUE
    /\ InitOutbound /\ InitPure /\ InitPanic /\ InitHub

SpecReply == InitReply /\ [][NextReply]_vars

\* ------------------------------------------------------- admin opens chat
\* MarkConversationAsRead: UPDATE conversations SET status = 'read'
\*                         WHERE id = ? AND status = 'unread'
mutMarkConversationAsReadAnyStatus(rows, conversationID) ==
    {IF c.id = conversationID THEN [c EXCEPT !.status = "read"] ELSE c : c \in rows}

MarkConversationAsRead(rows, conversationID) ==
    {IF c.id = conversationID /\ c.status = "unread"
     THEN [c EXCEPT !.status = "read"] ELSE c : c \in rows}

\* the ids in the path of GET /api/conversations/{id}/messages
OpenIds == {1, 2, 7}

\* GetConversationMessages for a path whose id parses: GetMessages (its
\* error ends the request with 500), then MarkConversationAsRead (its
\* error is logged only), then 200
GetConversationMessages(conversationID) ==
    /\ alive
    /\ Len(opens) < MaxOpens
    /\ \E f \in ReplyFaultChoices, step \in {"GetMessages", "MarkConversationAsRead"} :
         LET failed == IF f = "err" THEN step ELSE ""
         IN /\ Inject(f)
            /\ conversations' =
                 IF failed = ""
                 THEN MarkConversationAsRead(conversations, conversationID)
                 ELSE conversations
            /\ opens' = Append(opens,
                 [id |-> conversationID, failed |-> failed,
                  status |-> IF failed = "GetMessages" THEN 500 ELSE 200,
                  count |-> Cardinality({m \in messages :
                                           m.conversation_id = conversationID})])
    /\ UNCHANGED <<reqs, tasks, audit, webhook_logs, messages, dedup, calls, alive>>
    /\ UNCHANGED <<sendVars, replyVars, pureVars, panicVars, hubVars>>

\* one webhook POST, one reply request and the admin opening chat windows
NextRead ==
    \/ HandleFacebookEvent(1)
    \/ ProcessWebhook_Start(1)
    \/ AuditSaveLog(1)
    \/ processMessage_IsDuplicate(1)
    \/ processMessage_Select(1)
    \/ processMessage_Insert(1)
    \/ processMessage_SaveMessage(1)
    \/ processMessage_MarkProcessed(1)
    \/ ReplyStep(1)
    \/ \E id \in OpenIds : GetConversationMessages(id)

\* table conversations with a row of each status but 'read': the
\* conversation of user u1 after its first message, and a conversation of
\* user u2 that was archived
InitRead ==
    /\ reqs = [r \in ReqIds |-> NoReq]
    /\ tasks = [r \in ReqIds |-> NoTask]
    /\ audit = [r \in ReqIds |-> "none"]
    /\ webhook_logs = {}
    /\ conversations =
          {IF c.id = 2 THEN [c EXCEPT !.status = "archived"] ELSE c :
             c \in InsertConversation(
                      InsertConversation({}, DefaultTenantID, "u1", "p1"),
                      DefaultTenantID, "u2", "p1")}
    /\ messages = SaveMessageRow({}, [ConversationID |-> 1, SenderID |-> "u1",
                                      SenderType |-> "user", Content |-> "hello",
                                      Type |-> "text", ExternalMsgID |-> "m1"])
    /\ dedup = MarkProcessed({}, "m1")
    /\ calls = {}
    /\ faults = 0
    /\ alive = TRUE
    /\ InitOutbound /\ InitPure /\ InitPanic /\ InitHub

SpecRead == InitRead /\ [][NextRead]_vars

\* ------------------------------------------------- webhook verification
VerifyToken == "fb_verify_token"

\* r.URL.Query().Get(key): "" when the parameter is absent
QueryGet(v) == IF v = Absent THEN "" ELSE v

\* the GET requests the verification endpoint is given
VerifyRequests ==
    {[NoVerify EXCEPT !.pc = "received", !.mode = m, !.token = t, !.challenge = c] :
        m \in {Absent, "subscribe", "unsubscribe", "Subscribe"},
        t \in {Absent, "", VerifyToken, "wrong_token", "fb_verify_toke"},
        c \in {Absent, "", "c1", "c2", "1158201444"}}

mutVerifyAcceptsAnyMode(mode, token) == token = VerifyToken

VerifyAccepts(mode, token) == mode = "subscribe" /\ token = VerifyToken

\* HandleFacebookVerify: 200 and the challenge, or http.Error(403)
HandleFacebookVerify ==
    /\ verify.pc = "received"
    /\ LET mode == QueryGet(verify.mode)
           token == QueryGet(verify.token)
           challenge == QueryGet(verify.challenge)
       IN verify' =
            IF VerifyAccepts(mode, token)
            THEN [verify EXCEPT !.pc = "done", !.status = 200, !.body = challenge]
            ELSE [verify EXCEPT !.pc = "done", !.status = 403,
                                !.body = "Forbidden\n"]
    /\ UNCHANGED <<webhookVars, sendVars, replyVars, probe, panicVars, readVars, hubVars>>

InitVerify ==
    /\ InitWebhook /\ InitOutbound /\ InitPanic /\ InitHub
    /\ probe = NoProbe
    /\ verify \in VerifyRequests

SpecVerify == InitVerify /\ [][HandleFacebookVerify]_vars

\* ------------------------------------------------- the classifier alone
\* the messaging events the classifier is given
ProbeAttachments ==
    { <<>>,
      << [type |-> "image", url |-> "https://cdn/a.png"] >>,
      << [type |-> "file", url |-> Absent], [type |-> "image", url |-> "https://cdn/a.png"] >>,
      << [type |-> Absent, url |-> "https://cdn/b"] >> }

ProbeMessages ==
    {NoRawMessage}
    \cup {[RawMessage(mid, text, echo) EXCEPT !.attachments = atts] :
            mid \in {"m1", Absent}, text \in {"hello", "", Absent},
            echo \in {Absent, "true", "false"}, atts \in ProbeAttachments}

ProbeEvents ==
    {RawEvent(sender, "p1", m, d, rd) :
        sender \in {"u1", Absent}, m \in ProbeMessages,
        d \in {Absent, "{mids}"}, rd \in {Absent, "{watermark}"}}

\* decode one event and apply the methods of FacebookMessaging to it
Classify ==
    /\ probe.pc = "received"
    /\ LET m == DecodeMessaging(probe.raw)
       IN probe' = [probe EXCEPT !.pc = "done",
                                 !.isUser = IsUserMessage(m),
                                 !.id = GetMessageID(m),
                                 !.type = GetMessageType(m),
                                 !.content = GetContent(m)]
    /\ UNCHANGED <<webhookVars, sendVars, replyVars, verify, panicVars, readVars, hubVars>>

InitClassify ==
    /\ InitWebhook /\ InitOutbound /\ InitPanic /\ InitHub
    /\ verify = NoVerify
    /\ probe \in {[NoProbe EXCEPT !.pc = "received", !.raw = e] : e \in ProbeEvents}

SpecClassify == InitClassify /\ [][Classify]_vars

\* -------------------------------------------------------------- PanicMode
\* the calls the goroutines make on the global PanicMode
PanicCalls ==
    { [op |-> "IsActive", reason |-> "", by |-> ""],
      [op |-> "GetStatus", reason |-> "", by |-> ""],
      [op |-> "Enable", reason |-> "overload", by |-> "admin"],
      [op |-> "Enable", reason |-> "attack", by |-> "ops"],
      [op |-> "Disable", reason |-> "", by |-> "admin"] }

ReadOps == {"IsActive", "GetStatus"}

\* sync.RWMutex: RLock goes through unless a writer has announced itself
\* (readerCount < 0), whatever the number of readers holding the lock
mutRLockAdmitsAlways(m) == TRUE

RLockAdmits(m) == m.w = 0

\* sync.RWMutex.Lock: first the writers' mutex rw.w, then wait until the
\* readers that hold the lock have left
LockAdmits(m) == m.w = 0
ReadersGone(m) == m.readers = {}

\* a goroutine calls a method of PanicMode
PanicMode_Call(p) ==
    /\ callers[p].pc = "idle"
    /\ \E c \in PanicCalls :
         callers' = [callers EXCEPT ![p] =
            [@ EXCEPT !.pc = IF c.op \in ReadOps THEN "RLock" ELSE "Lock",
                      !.op = c.op, !.reason = c.reason, !.by = c.by]]
    /\ UNCHANGED <<mu, panicMode, committed>>
    /\ UNCHANGED <<webhookVars, sendVars, replyVars, pureVars, readVars, hubVars>>

\* IsActive, GetStatus: p.mu.RLock()
PanicMode_RLock(p) ==
    /\ callers[p].pc = "RLock"
    /\ RLockAdmits(mu)
    /\ mu' = [mu EXCEPT !.readers = @ \cup {p}]
    /\ callers' = [callers EXCEPT ![p].pc = "read"]
    /\ UNCHANGED <<panicMode, committed>>
    /\ UNCHANGED <<webhookVars, sendVars, replyVars, pureVars, readVars, hubVars>>

\* IsActive: return p.active; GetStatus: the map built from the fields
PanicMode_Read(p) ==
    /\ callers[p].pc = "read"
    /\ callers' = [callers EXCEPT ![p] =
          [@ EXCEPT !.pc = "RUnlock",
                    !.seen = IF callers[p].op = "IsActive"
                             THEN [ZeroPanicMode EXCEPT !.active = panicMode.active]
                             ELSE panicMode]]
    /\ UNCHANGED <<mu, panicMode, committed>>
    /\ UNCHANGED <<webhookVars, sendVars, replyVars, pureVars, readVars, hubVars>>

\* defer p.mu.RUnlock()
PanicMode_RUnlock(p) ==
    /\ callers[p].pc = "RUnlock"
    /\ mu' = [mu EXCEPT !.readers = @ \ {p}]
    /\ callers' = [callers EXCEPT ![p].pc = "done"]
    /\ UNCHANGED <<panicMode, committed>>
    /\ UNCHANGED <<webhookVars, sendVars, replyVars, pureVars, readVars, hubVars>>

\* Enable, Disable: p.mu.Lock(), the writer announces itself
PanicMode_Lock(p) ==
    /\ callers[p].pc = "Lock"
    /\ LockAdmits(mu)
    /\ mu' = [mu EXCEPT !.w = p]
    /\ callers' = [callers EXCEPT ![p].pc = "wait"]
    /\ UNCHANGED <<panicMode, committed>>
    /\ UNCHANGED <<webhookVars, sendVars, replyVars, pureVars, readVars, hubVars>>

\* p.mu.Lock() returns once the last reader has left
PanicMode_Locked(p) ==
    /\ callers[p].pc = "wait"
    /\ ReadersGone(mu)
    /\ callers' = [callers EXCEPT ![p].pc =
          IF callers[p].op = "Enable" THEN "active" ELSE "inactive"]
    /\ UNCHANGED <<mu, panicMode, committed>>
    /\ UNCHANGED <<webhookVars, sendVars, replyVars, pureVars, readVars, hubVars>>

\* Enable: p.active = true; p.reason = reason; p.activatedBy = activatedBy,
\* one assignment per step. Disable: p.active = false.
PanicMode_Assign(p) ==
    /\ callers[p].pc \in {"active", "reason", "activatedBy", "inactive"}
    /\ panicMode' =
          CASE callers[p].pc = "active" -> [panicMode EXCEPT !.active = TRUE]
            [] callers[p].pc = "reason" ->
                 [panicMode EXCEPT !.reason = callers[p].reason]
            [] callers[p].pc = "activatedBy" ->
                 [panicMode EXCEPT !.activatedBy = callers[p].by]
            [] callers[p].pc = "inactive" -> [panicMode EXCEPT !.active = FALSE]
    /\ callers' = [callers EXCEPT ![p].pc =
          CASE callers[p].pc = "active" -> "reason"
            [] callers[p].pc = "reason" -> "activatedBy"
            [] OTHER -> "Unlock"]
    /\ UNCHANGED <<mu, committed>>
    /\ UNCHANGED <<webhookVars, sendVars, replyVars, pureVars, readVars, hubVars>>

\* defer p.mu.Unlock()
PanicMode_Unlock(p) ==
    /\ callers[p].pc = "Unlock"
    /\ mu' = [mu EXCEPT !.w = 0]
    /\ committed' = committed \cup {panicMode}
    /\ callers' = [callers EXCEPT ![p].pc = "done"]
    /\ UNCHANGED panicMode
    /\ UNCHANGED <<webhookVars, sendVars, replyVars, pureVars, readVars, hubVars>>

NextPanic ==
    \E p \in Callers :
        \/ PanicMode_Call(p)
        \/ PanicMode_RLock(p)
        \/ PanicMode_Read(p)
        \/ PanicMode_RUnlock(p)
        \/ PanicMode_Lock(p)
        \/ PanicMode_Locked(p)
        \/ PanicMode_Assign(p)
        \/ PanicMode_Unlock(p)

SpecPanic == Init /\ [][NextPanic]_vars

\* ---------------------------------------------------------------- LogHub
\* the byte slices given to Write, character by character
Payloads == { <<"a", "\n">>, <<"b">>, <<"c", "\r", "\n">> }
\* the line log.Printf writes from inside Run
HubLine == <<"h", "\n">>

\* bytes.TrimRight(msg, "\n\r")
RECURSIVE TrimRight(_)
TrimRight(p) ==
    IF p # <<>> /\ p[Len(p)] \in {"\n", "\r"}
    THEN TrimRight(SubSeq(p, 1, Len(p) - 1))
    ELSE p

\* a plain send "ch <- msg": it waits while the buffer is full
mutSendOrDropBlocks(ch, cap, msg) ==
    IF Len(ch) < cap
    THEN [ch |-> Append(ch, msg), sent |-> TRUE, blocked |-> FALSE]
    ELSE [ch |-> ch, sent |-> FALSE, blocked |-> TRUE]

\* select { case ch <- msg: default: } on a channel of capacity cap
SendOrDrop(ch, cap, msg) ==
    IF Len(ch) < cap
    THEN [ch |-> Append(ch, msg), sent |-> TRUE, blocked |-> FALSE]
    ELSE [ch |-> ch, sent |-> FALSE, blocked |-> FALSE]

\* LogHub.Write(p): copy, trim, offer to broadcast, return (len(p), nil)
Write(h, p) ==
    LET r == SendOrDrop(h.broadcast, broadcastBufferSize, TrimRight(p))
    IN [h EXCEPT !.broadcast = r.ch,
                 !.lastWrite = [p |-> p, n |-> Len(p), err |-> "nil",
                                queued |-> r.sent,
                                full |-> Len(h.broadcast) >= broadcastBufferSize]]

WriteBlocks(h, p) ==
    SendOrDrop(h.broadcast, broadcastBufferSize, TrimRight(p)).blocked

\* log.Printf inside Run: it reaches Write when the hub was made the
\* output of the standard logger (log.SetOutput), and not otherwise
Printf(h, hooked) == IF hooked THEN Write(h, HubLine) ELSE h

hubFrame ==
    UNCHANGED <<webhookVars, sendVars, replyVars, pureVars, panicVars, readVars>>

\* a goroutine that logs calls hub.Write(p)
LogHub_Write ==
    /\ hub.nwrites < MaxWrites
    /\ \E p \in Payloads :
         /\ ~WriteBlocks(hub, p)
         /\ hub' = [Write(hub, p) EXCEPT !.nwrites = @ + 1]
    /\ hubFrame

\* ServeWS after the key check and the upgrade: make the client and send
\* it on the unbuffered register channel
ServeWS(c) ==
    /\ hub.conn[c].pc = "none"
    /\ \A k \in ClientIds : k < c => hub.conn[k].pc # "none"
    /\ hub' = [hub EXCEPT !.conn[c].pc = "registering"]
    /\ hubFrame

\* Run, case client := <-h.register
Run_Register(c) ==
    /\ hub.conn[c].pc = "registering"
    /\ \E hooked \in BOOLEAN :
         LET h == [hub EXCEPT !.clients = @ \cup {c}, !.conn[c].pc = "open"]
         IN /\ hooked => ~WriteBlocks(h, HubLine)
            /\ hub' = Printf(h, hooked)
    /\ hubFrame

\* readPump: ReadMessage returned an error; the deferred function sends
\* the client on the unbuffered unregister channel
readPump_Return(c) ==
    /\ hub.conn[c].pc = "open"
    /\ hub' = [hub EXCEPT !.conn[c].pc = "unregistering"]
    /\ hubFrame

\* if _, ok := h.clients[client]; ok { delete(...); close(client.send) }
Unregister(h, c) ==
    IF c \in h.clients
    THEN [h EXCEPT !.clients = @ \ {c},
                   !.conn[c].closed = TRUE,
                   !.conn[c].closes = @ + 1,
                   !.panicked = @ \/ h.conn[c].closed]
    ELSE h

\* Run, case client := <-h.unregister
Run_Unregister(c) ==
    /\ hub.conn[c].pc = "unregistering"
    /\ \E hooked \in BOOLEAN :
         LET h == [Unregister(hub, c) EXCEPT !.conn[c].pc = "gone"]
         IN /\ hooked => ~WriteBlocks(h, HubLine)
            /\ hub' = Printf(h, hooked)
    /\ hubFrame

\* a loop that gives up the message at the first client whose buffer is full
mutDeliverStopsAtFull(conn, clients, msg) ==
    IF \E c \in clients : Len(conn[c].send) >= clientBufferSize
    THEN conn
    ELSE [c \in ClientIds |->
            IF c \in clients
            THEN [conn[c] EXCEPT !.send = Append(@, msg)]
            ELSE conn[c]]

\* for client := range h.clients { select { case client.send <- message: default: } }
Deliver(conn, clients, msg) ==
    [c \in ClientIds |->
        IF c \in clients
        THEN [conn[c] EXCEPT !.send = SendOrDrop(@, clientBufferSize, msg).ch]
        ELSE conn[c]]

\* Run, case message := <-h.broadcast
Run_Broadcast ==
    /\ hub.broadcast # <<>>
    /\ LET msg == Head(hub.broadcast)
           full == {c \in hub.clients : Len(hub.conn[c].send) >= clientBufferSize}
       IN /\ \A c \in hub.clients :
               ~SendOrDrop(hub.conn[c].send, clientBufferSize, msg).blocked
          /\ hub' = [hub EXCEPT
                       !.broadcast = Tail(@),
                       !.conn = Deliver(@, hub.clients, msg),
                       !.panicked = @ \/ \E c \in hub.clients : hub.conn[c].closed,
                       !.lastBroadcast = [msg |-> msg,
                                          delivered |-> hub.clients \ full,
                                          skipped |-> full]]
    /\ hubFrame

\* writePump, case message, ok := <-c.send: the message and the pending
\* ones are written to the connection in one frame
writePump(c) ==
    /\ hub.conn[c].pc \in {"open", "unregistering", "gone"}
    /\ hub.conn[c].send # <<>>
    /\ hub' = [hub EXCEPT !.conn[c].send = <<>>]
    /\ hubFrame

NextHub ==
    \/ LogHub_Write
    \/ Run_Broadcast
    \/ \E c \in ClientIds :
          \/ ServeWS(c)
          \/ Run_Register(c)
          \/ readPump_Return(c)
          \/ Run_Unregister(c)
          \/ writePump(c)

SpecHub == Init /\ [][NextHub]_vars

\* ------------------------------------------------------------ specification
NextSend ==
    \/ SendReply_Call
    \/ SendReply_Attempt
    \/ SendReply_Backoff

SpecSend == Init /\ [][NextSend]_vars

\* Every step of SendReply ends: the HTTP client gives up after its 10 s
\* timeout and time.Sleep returns.
SpecSendFair == SpecSend /\ WF_vars(NextSend)

Next ==
    \E r \in ReqIds :
        \/ HandleFacebookEvent(r)
        \/ ProcessWebhook_Start(r)
        \/ AuditSaveLog(r)
        \/ processMessage_IsDuplicate(r)
        \/ processMessage_Select(r)
        \/ processMessage_Insert(r)
        \/ processMessage_SaveMessage(r)
        \/ processMessage_MarkProcessed(r)

Spec == Init /\ [][Next]_vars

\* the webhook pipeline and one reply request side by side, on empty stores
NextStore == Next \/ ReplyStep(1)

SpecStore == Init /\ [][NextStore]_vars

TypeOK ==
    /\ faults \in 0..MaxFaults
    /\ alive \in BOOLEAN
    /\ \A r \in ReqIds : reqs[r].status \in {0, 200, 400, 403}

\* ===================================================================== claims
RECURSIVE RawFlatten(_)
RawFlatten(entries) ==
    IF entries = <<>> THEN <<>> ELSE Head(entries) \o RawFlatten(Tail(entries))

\* the raw messaging events of request r, in envelope order
RawEvents(r) ==
    IF reqs[r].body.json THEN RawFlatten(reqs[r].body.entry) ELSE <<>>

Received(r) == reqs[r].st # "none"
CallsOf(r) == {c \in calls : c.r = r}
CallsFor(r, i) == {c \in calls : c.r = r /\ c.i = i}
NoDispatch(r) ==
    /\ tasks[r].pc = "none"
    /\ audit[r] = "none"
    /\ CallsOf(r) = {}
    /\ reqs[r].did = <<>>

\* The header is missing, or is not "sha256=" + hex(HMAC(secret, body)).
BadSignature(r) == reqs[r].sig # ValidHeader(reqs[r].body)

\* C1 as stated: every POST whose signature header is missing or rejected
\* is answered 403 and causes no dispatch (no task, no audit write, no
\* store call).
C1_Original ==
    \A r \in ReqIds :
        (Received(r) /\ BadSignature(r)) => (reqs[r].status = 403 /\ NoDispatch(r))

\* C1 amended: every POST whose signature header is missing or rejected is
\* answered 403, or 400 when its body could not be read, and in both cases
\* it causes no dispatch: no task, no audit write, no store call. A POST
\* whose body could not be read causes no dispatch either.
C1_AuthGate ==
    \A r \in ReqIds :
        /\ (Received(r) /\ BadSignature(r)) =>
              /\ reqs[r].status = IF reqs[r].readErr THEN 400 ELSE 403
              /\ NoDispatch(r)
        /\ (Received(r) /\ reqs[r].readErr) =>
              (reqs[r].status = 400 /\ NoDispatch(r))

\* a POST with a wrong (not missing) signature was rejected after another
\* POST was dispatched and wrote a message
C1_Witness ==
    \E r \in ReqIds :
        /\ Received(r) /\ ~reqs[r].readErr
        /\ reqs[r].sig \notin {NoHeader, ValidHeader(reqs[r].body)}
        /\ reqs[r].sig.prefix = "sha256="
        /\ reqs[r].status = 403
        /\ messages # {}

Before(seq, a, b) ==
    \E i, j \in 1..Len(seq) : i < j /\ seq[i] = a /\ seq[j] = b

\* C2: for a POST with a valid signature the 200 response is written
\* before the dispatch goroutine is started; no dispatch step exists for a
\* request that has no response yet, and no later step of any kind (store
\* error, parse failure, panic) changes a response once written.
C2_RespondBeforeDispatch ==
    /\ [](\A r \in ReqIds :
            /\ (tasks[r].pc # "none" \/ audit[r] # "none" \/ CallsOf(r) # {}) =>
                  (reqs[r].status = 200 /\ Before(reqs[r].did, "respond", "spawn"))
            /\ (Received(r) /\ ~reqs[r].readErr /\ ~BadSignature(r)) =>
                  (reqs[r].status = 200 /\ Before(reqs[r].did, "respond", "spawn")))
    /\ [][\A r \in ReqIds : Received(r) => reqs'[r] = reqs[r]]_vars

\* a dispatch task panicked and another failed to parse; both POSTs got 200
C2_Witness ==
    \E a, b \in ReqIds :
        /\ tasks[a].end = "panicked" /\ reqs[a].status = 200
        /\ tasks[b].end = "parse_failed" /\ reqs[b].status = 200

\* The raw event is an echo, carries a delivery or read marker, or has no
\* message body.
Filtered(raw) ==
    \/ ~raw.message.present
    \/ raw.message.is_echo = "true"
    \/ raw.delivery # Absent
    \/ raw.read # Absent

\* the loop of task r is past event i
Past(r, i) == tasks[r].i > i \/ tasks[r].end = "completed"

\* C3: for an event that is an echo, carries a delivery or read marker or
\* has no message body, no store call is ever made (no dedup query or mark,
\* no conversation lookup or insert, no SaveMessage); once the loop is
\* past it, it is recorded as skipped, and the skipped counter counts
\* exactly these events.
C3_FilteredEvents ==
    \A r \in ReqIds :
        /\ \A i \in 1..Len(RawEvents(r)) :
              Filtered(RawEvents(r)[i]) =>
                 /\ \A c \in CallsFor(r, i) : c.op = "classify" /\ c.res = "skipped"
                 /\ (tasks[r].pc # "none" /\ Past(r, i)) =>
                       Call(r, i, "classify", "skipped") \in calls
        /\ tasks[r].skippedCount =
              Cardinality({i \in 1..Len(RawEvents(r)) :
                              /\ Filtered(RawEvents(r)[i])
                              /\ Call(r, i, "classify", "skipped") \in calls})

\* a call with an echo and a delivery receipt before a user message ran to
\* its end: two events skipped, the user message saved
C3_Witness ==
    \E r \in ReqIds :
        /\ tasks[r].end = "completed"
        /\ tasks[r].skippedCount = 2
        /\ tasks[r].processedCount = 1
        /\ \E i \in 1..Len(RawEvents(r)) : RawEvents(r)[i].message.is_echo = "true"
        /\ \E c \in CallsOf(r) : c.op = "SaveMessage" /\ c.res = "ok"

MessagesWithId(mid) == {m \in messages : m.external_msg_id = mid}
WriteOps == {"Select", "Insert", "SaveMessage"}
UserIndexes(r) == {i \in 1..Len(RawEvents(r)) : ~Filtered(RawEvents(r)[i])}

\* C4 as stated: when the same valid payload with one user message is
\* submitted twice, the second call beginning after the first one ended and
\* the first one having saved the message, exactly one message row with that
\* id exists after the second call, and the second call made no conversation
\* lookup or insert and no SaveMessage.
C4_Idempotent ==
    \A a, b \in ReqIds :
        ( /\ a # b
          /\ reqs[a].status = 200 /\ reqs[b].status = 200
          /\ reqs[a].body = reqs[b].body
          /\ Cardinality(UserIndexes(a)) = 1
          /\ a \in tasks[b].after
          /\ tasks[b].pc = "done" /\ tasks[b].end = "completed"
          /\ \E c \in CallsOf(a) : c.op = "SaveMessage" /\ c.res = "ok" )
        => \A i \in UserIndexes(b) :
              /\ Cardinality(MessagesWithId(RawEvents(b)[i].message.mid)) = 1
              /\ \A c \in CallsFor(b, i) : c.op \notin WriteOps

ConversationsOf(tenantID, platformID, pageID) ==
    SelectConversation(conversations, tenantID, platformID, pageID)

EventKey(r, i) == Events(r)[i]

\* C5: for every (tenant, platform-user, page) triple there is never more
\* than one conversation row, whatever the interleaving of the lookups and
\* inserts of concurrent dispatch tasks; and as soon as one task's insert
\* for the triple was executed by the database (accepted or refused as a
\* duplicate key), exactly one row exists for it.
C5_OneConversation ==
    /\ \A c1, c2 \in conversations :
          ( /\ c1.tenant_id = c2.tenant_id
            /\ c1.platform_id = c2.platform_id
            /\ c1.page_id = c2.page_id ) => c1 = c2
    /\ \A c \in calls :
          (c.op = "Insert" /\ c.res \in {"ok", "conflict"}) =>
             Cardinality(ConversationsOf(DefaultTenantID,
                                         EventKey(c.r, c.i).Sender,
                                         EventKey(c.r, c.i).Recipient)) = 1

\* two tasks both missed the lookup for the same triple and both executed
\* their insert; both tasks have ended
C5_Witness ==
    \E a, b \in ReqIds :
        /\ a # b
        /\ tasks[a].pc = "done" /\ tasks[b].pc = "done"
        /\ \E ca \in CallsOf(a), cb \in CallsOf(b) :
              /\ ca.op = "Insert" /\ ca.res = "ok"
              /\ cb.op = "Insert" /\ cb.res = "conflict"
        /\ Cardinality(conversations) = 1

\* C6 as stated: a GetOrCreateByPlatformID call whose insert hits the
\* uniqueness conflict retries the lookup and returns the existing
\* conversation id without error, so its event goes on to SaveMessage.
C6_ConflictRetriesLookup ==
    \A c \in calls :
        (c.op = "Insert" /\ c.res = "conflict") =>
           \/ /\ tasks[c.r].i = c.i
              /\ tasks[c.r].pc \in {"SaveMessage", "MarkProcessed"}
              /\ tasks[c.r].conv \in {row.id : row \in conversations}
           \/ \E d \in CallsFor(c.r, c.i) : d.op = "SaveMessage"

Stage(op) ==
    CASE op = "classify" -> 0
      [] op = "IsDuplicate" -> 1
      [] op = "Select" -> 2
      [] op = "Insert" -> 3
      [] op = "SaveMessage" -> 4
      [] op = "MarkProcessed" -> 5

\* a store call of processMessage that made it return an error
Failed(c) ==
    \/ c.op \in {"IsDuplicate", "Select", "SaveMessage"} /\ c.res = "err"
    \/ c.op = "Insert" /\ c.res \in {"err", "conflict"}

C8_PanicContained ==
    /\ alive
    /\ \A r \in ReqIds :
          /\ tasks[r].end = "panicked" => tasks[r].pc = "done"
          /\ (reqs[r].st = "none" /\ \A q \in ReqIds : q < r => Received(q)) =>
                ENABLED HandleFacebookEvent(r)

\* a dispatch task panicked in a store call, or the audit-log goroutine
\* panicked, and a POST received after that was answered 200 and dispatched
C8_Witness ==
    \E a, b \in ReqIds :
        /\ tasks[a].end = "panicked" \/ audit[a] = "panic"
        /\ tasks[a].pc = "done"
        /\ a \in tasks[b].after
        /\ reqs[b].status = 200
        /\ tasks[b].end = "completed"

\* C9: when IsDuplicate returns an error for a user message, the event is
\* skipped: no conversation lookup or insert, no SaveMessage and no
\* MarkProcessed is made for it, and it is not counted as processed.
C9_DedupFailClosed ==
    \A c \in calls :
        (c.op = "IsDuplicate" /\ c.res = "err") =>
           /\ CallsFor(c.r, c.i) = {c}
           /\ tasks[c.r].i > c.i \/ tasks[c.r].end = "completed"
           /\ tasks[c.r].processedCount <=
                 Cardinality({i \in UserIndexes(c.r) : i # c.i})

\* the dedup check of the first user message of a call failed, and the
\* call ran to its end with the second one saved
C9_Witness ==
    \E r \in ReqIds :
        /\ tasks[r].end = "completed"
        /\ \E c, d \in CallsOf(r) :
              /\ c.op = "IsDuplicate" /\ c.res = "err"
              /\ d.i > c.i /\ d.op = "MarkProcessed" /\ d.res = "ok"

Terminal == {"ErrTokenExpired", "ErrRateLimited", "ErrPermissionDenied"}

\* C10: an attempt of SendReply that fails with TokenExpired, RateLimited
\* or PermissionDenied is the last thing SendReply does: no sleep and no
\* attempt follows it, and SendReply has returned that same error,
\* whichever attempt it was.
C10_NoRetryOnTerminal ==
    \A k \in 1..Len(send.log) :
        (send.log[k].kind = "attempt" /\ send.log[k].err \in Terminal) =>
           /\ k = Len(send.log)
           /\ send.pc = "done"
           /\ send.result = send.log[k].err

\* the third attempt, after two transient failures and two sleeps, was
\* rate limited
C10_Witness ==
    /\ Len(send.log) = 5
    /\ send.log[5].n = 3
    /\ send.log[5].err = "ErrRateLimited"
    /\ send.log[1].err = "other" /\ send.log[3].err = "other"
    /\ send.pc = "done"

\* the attempts and the sleeps of the SendReply call, in order
Attempts == SelectSeq(send.log, LAMBDA x : x.kind = "attempt")
Returned == send.pc = "done"
AllTransient == \A k \in 1..Len(Attempts) : Attempts[k].err = "other"

\* C11: SendReply never makes a fourth attempt; when it has returned and
\* every attempt failed with a non-terminal error, it made exactly 3
\* attempts, slept 500 ms after attempt 1 and 1000 ms after attempt 2, did
\* not sleep after attempt 3 and returned "failed after 3 attempts"; and
\* every call of SendReply returns.
C11_ThreeAttemptsThenFail ==
    /\ [](Len(Attempts) <= 3)
    /\ []((Returned /\ AllTransient) =>
            /\ Len(send.log) = 5
            /\ [k \in 1..5 |-> send.log[k].kind] =
                  <<"attempt", "sleep", "attempt", "sleep", "attempt">>
            /\ [k \in 1..5 |-> send.log[k].n] = <<1, 1, 2, 2, 3>>
            /\ send.log[2].ms = 500
            /\ send.log[4].ms = 1000
            /\ send.result = "failed after 3 attempts")
    /\ (send.pc # "idle") ~> Returned

\* three attempts got no response, a 500 with an unparseable body and an
\* error body with code 100, and SendReply returned
C11_Witness ==
    /\ Returned /\ AllTransient
    /\ Len(Attempts) = 3
    /\ ~Attempts[1].resp.net
    /\ Attempts[2].resp.status = 500
    /\ Attempts[3].resp.code = 100

\* C12: when attempts 1 and 2 failed with a transient error and attempt 3
\* succeeded, SendReply made exactly 3 attempts, slept at least 500 ms
\* before attempt 2 and at least 1000 ms before attempt 3, and returned nil.
C12_SuccessOnThird ==
    ( /\ Len(Attempts) >= 3
      /\ Attempts[1].err = "other" /\ Attempts[2].err = "other"
      /\ Attempts[3].err = "nil" )
    => /\ Len(Attempts) = 3
       /\ Len(send.log) = 5
       /\ send.log[2].kind = "sleep" /\ send.log[2].ms >= 500
       /\ send.log[4].kind = "sleep" /\ send.log[4].ms >= 1000
       /\ Returned
       /\ send.result = "nil"

\* two attempts without a response, then a 200
C12_Witness ==
    /\ Returned
    /\ Len(Attempts) = 3
    /\ ~Attempts[1].resp.net /\ ~Attempts[2].resp.net
    /\ Attempts[3].resp.status = 200
    /\ send.result = "nil"

\* C15: HandleFacebookVerify answers 200 with the hub.challenge value as
\* body exactly when hub.mode is "subscribe" and hub.verify_token is the
\* configured token; in every other case it answers 403 with the fixed
\* text "Forbidden" and not the challenge.
C15_VerifyHandshake ==
    verify.pc = "done" =>
       LET ok == verify.mode = "subscribe" /\ verify.token = VerifyToken
       IN /\ ok <=> verify.status = 200
          /\ ok => verify.body = QueryGet(verify.challenge)
          /\ ~ok => /\ verify.status = 403
                    /\ verify.body = "Forbidden\n"
                    /\ verify.body # QueryGet(verify.challenge)

\* the right token with another mode was refused
C15_Witness ==
    /\ verify.pc = "done"
    /\ verify.token = VerifyToken /\ verify.mode = "unsubscribe"
    /\ verify.challenge = "1158201444"
    /\ verify.status = 403

\* C16: IsUserMessage is true exactly for the events that have a message
\* body whose echo flag is not set and that carry neither a delivery nor a
\* read marker.
C16_IsUserMessageIff ==
    probe.pc = "done" =>
       (probe.isUser <=>
          /\ probe.raw.message.present
          /\ probe.raw.message.is_echo # "true"
          /\ probe.raw.delivery = Absent
          /\ probe.raw.read = Absent)

\* a message that is no echo but comes with a read marker was rejected
C16_Witness ==
    /\ probe.pc = "done"
    /\ probe.raw.message.present /\ probe.raw.message.is_echo = "false"
    /\ probe.raw.delivery = Absent /\ probe.raw.read # Absent
    /\ ~probe.isUser

\* the body of request r was received and is not a JSON document
Unparseable(r) == Received(r) /\ ~reqs[r].body.json

\* C17: a POST whose body is not parseable JSON and whose signature is
\* right for that body is answered 200 before its dispatch starts; its
\* dispatch ends at the parse step with nothing counted, makes no dedup
\* query or mark, no conversation lookup or insert and no SaveMessage, and
\* no step of it changes the conversation, message or dedup store.
C17_ParseFailure ==
    /\ [](\A r \in ReqIds :
            (Unparseable(r) /\ ~reqs[r].readErr /\ ~BadSignature(r)) =>
               /\ reqs[r].status = 200
               /\ Before(reqs[r].did, "respond", "spawn")
               /\ CallsOf(r) = {}
               /\ tasks[r].pc \in {"start", "done"}
               /\ tasks[r].pc = "done" =>
                     /\ tasks[r].end = "parse_failed"
                     /\ tasks[r].processedCount = 0
                     /\ tasks[r].skippedCount = 0)
    /\ [][\A r \in ReqIds :
            (Unparseable(r) /\ tasks'[r] # tasks[r]) =>
               UNCHANGED <<conversations, messages, dedup>>]_vars

\* a body cut off after a complete user message was answered 200, its
\* dispatch stopped at the parse step and its audit record was written
C17_Witness ==
    \E r \in ReqIds :
        /\ reqs[r].body = TruncatedAfterEvent
        /\ reqs[r].status = 200
        /\ tasks[r].end = "parse_failed"
        /\ audit[r] = "ok"
        /\ messages = {}

\* no store call of request r failed, panicked or met a duplicate
Undisturbed(r) ==
    \A c \in CallsOf(r) : c.res \in {"ok", "false", "hit", "miss", "skipped"}

\* C18 as stated: in a call with a valid user message followed by a message
\* event without sender id, all store calls succeeding, the valid message
\* is saved, no conversation lookup or insert and no SaveMessage is made
\* for the malformed event, no row is written for it, and the counts are 1
\* processed and 1 skipped or failed.
C18_MalformedAbandoned ==
    \A r \in ReqIds :
        ( /\ reqs[r].body = Doc(<< <<EvUser1, EvNoSender>> >>)
          /\ tasks[r].end = "completed"
          /\ Undisturbed(r) )
        => /\ MessagesWithId("m1") # {}
           /\ MessagesWithId("m4") = {}
           /\ \A c \in CallsFor(r, 2) : c.op \notin WriteOps
           /\ \A row \in conversations : row.platform_id # ""
           /\ tasks[r].processedCount = 1

\* C20 as stated: once the dispatch of a request has finished and its audit
\* record was saved, the record's status is 'failed' when the payload did
\* not parse and 'processed' when the events were processed; it is no
\* longer 'pending'.
C20_AuditLifecycle ==
    \A r \in ReqIds :
        ( /\ tasks[r].pc = "done"
          /\ tasks[r].end \in {"parse_failed", "completed"}
          /\ audit[r] = "ok" )
        => \E row \in webhook_logs :
              /\ row.payload_json = reqs[r].body
              /\ row.status = IF tasks[r].end = "parse_failed"
                               THEN "failed" ELSE "processed"

\* the outbound send attempts reply request q has begun
SendsOf(q) == {x \in sends : x.q = q}

\* C13 as stated: when SendReply reported token expiry to the reply handler
\* and the handler has responded, exactly one send attempt was made, the
\* owning page's active flag is false, and the response is the 400 with
\* the advice to reconnect the page, not the internal error.
C13_TokenExpiryDeactivates ==
    \A q \in ReplyIds :
        (replies[q].pc = "done" /\ replies[q].err = "ErrTokenExpired") =>
           /\ Cardinality(SendsOf(q)) = 1
           /\ ~pages[replies[q].pageID].is_active
           /\ replies[q].status = 400
           /\ replies[q].message =
                 "the page lost its connection to Facebook, reconnect it in Settings"
           /\ replies[q].message # replies[q].err

\* C14 as stated: no outbound send attempt for a page begins while the
\* page's active flag is false.
C14_NoSendWhileInactive ==
    \A x \in sends : x.active

Roles == {"user", "bot", "agent"}

\* C19: every message row has role 'user' or 'agent'; a row written by a
\* step of a dispatch task has role 'user', a row written by a step of a
\* reply request has role 'agent', and SaveOutboundMessage writes 'agent'
\* whatever role the message it is given carries.
C19_SenderRoles ==
    /\ [](\A row \in messages : row.sender_type \in {"user", "agent"})
    /\ [](\A role \in Roles :
            \A row \in SaveOutboundMessageRow(messages,
                          [ConversationID |-> 1, SenderID |-> "admin",
                           SenderType |-> role, Content |-> "hi"]) \ messages :
               row.sender_type = "agent")
    /\ [][tasks' # tasks =>
            \A row \in messages' \ messages : row.sender_type = "user"]_vars
    /\ [][replies' # replies =>
            \A row \in messages' \ messages : row.sender_type = "agent"]_vars

\* the conversation of an inbound message holds that message with role
\* 'user' and a reply with role 'agent'
C19_Witness ==
    \E a, b \in messages :
        /\ a.conversation_id = b.conversation_id
        /\ a.sender_type = "user" /\ a.external_msg_id = "m1"
        /\ b.sender_type = "agent" /\ b.sender_id = "admin"
        /\ \E r \in ReqIds : tasks[r].end = "completed"
        /\ replies[1].status = 200

\* no dispatch task and no reply request is in the middle of its work
Quiescent ==
    /\ \A r \in ReqIds : tasks[r].pc \in {"none", "done"}
    /\ \A q \in ReplyIds : replies[q].pc \in {"none", "done"}

MessagesOf(conversationID) == {m \in messages : m.conversation_id = conversationID}
LastMessageOf(conversationID) ==
    CHOOSE m \in MessagesOf(conversationID) :
        \A n \in MessagesOf(conversationID) : n.id <= m.id

\* C21 as stated: once the handlers that persisted messages have finished,
\* every conversation that has messages shows the content of its newest
\* message as last-message snippet and has a last-message timestamp.
C21_SnippetFollowsMessages ==
    Quiescent =>
       \A c \in conversations :
          MessagesOf(c.id) # {} =>
             /\ c.last_message_content = LastMessageOf(c.id).content
             /\ c.last_message_at > 0

\* the goroutines inside a read method and inside a write method
Reading == {p \in Callers : callers[p].pc \in {"read", "RUnlock"}}
Writing == {p \in Callers : callers[p].pc \in
               {"active", "reason", "activatedBy", "inactive", "Unlock"}}

\* C22: IsActive and GetStatus hold the lock shared, Enable and Disable
\* hold it exclusively: no reader is inside while a writer is, at most one
\* writer is inside, a read is let in whatever the number of readers
\* inside unless a writer has announced itself, and the value a reader
\* returns is the PanicMode as the last Unlock (or the start) left it,
\* never a half-applied Enable.
C22_ReadersWriterLock ==
    /\ [](Writing # {} => (Reading = {} /\ Cardinality(Writing) = 1))
    /\ [](Reading = mu.readers)
    /\ [](\A p \in Callers :
            (callers[p].pc = "RLock" /\ mu.w = 0) => ENABLED PanicMode_RLock(p))
    /\ [](\A p \in Callers :
            (callers[p].pc \in {"RUnlock", "done"} /\ callers[p].op = "GetStatus")
               => callers[p].seen \in committed)
    /\ [][\A p \in Callers :
            (callers[p].pc = "read" /\ callers'[p].pc = "RUnlock") =>
               (panicMode \in committed /\ Writing = {})]_vars

\* two readers are inside at the same time, after an Enable and while the
\* next Enable waits for them; one of them has read the first Enable whole
C22_Witness ==
    /\ Cardinality(Reading) = 2
    /\ \E p \in Callers : callers[p].pc = "wait" /\ callers[p].op = "Enable"
    /\ \E p \in Reading :
          /\ callers[p].op = "GetStatus" /\ callers[p].pc = "RUnlock"
          /\ callers[p].seen.active /\ callers[p].seen.activatedBy # ""

\* C23: for an event with a message body, GetMessageType is the type of
\* the first attachment when there is an attachment, whether or not there
\* is text as well; without attachment it is 'text' when the text is not
\* empty and 'unknown' otherwise.
C23_MessageType ==
    (probe.pc = "done" /\ probe.raw.message.present) =>
       LET atts == probe.raw.message.attachments
       IN probe.type =
            IF Len(atts) > 0
            THEN (IF atts[1].type = Absent THEN "" ELSE atts[1].type)
            ELSE IF probe.raw.message.text \notin {Absent, ""} THEN "text"
            ELSE "unknown"

\* a message with text and two attachments has the type of the first one
C23_Witness ==
    /\ probe.pc = "done"
    /\ probe.raw.message.text = "hello"
    /\ Len(probe.raw.message.attachments) = 2
    /\ probe.type = "file"
    /\ probe.content = "hello"

\* the events of call r for which processMessage returned nil
ReturnedNil(r) ==
    {i \in 1..Len(RawEvents(r)) :
        \E c \in CallsFor(r, i) :
           \/ c.op = "MarkProcessed" /\ c.res \in {"ok", "err"}
           \/ c.op = "IsDuplicate" /\ c.res = "true"}

\* C24: when MarkProcessed returned an error for an event whose SaveMessage
\* succeeded, the message row is and stays persisted, the event is counted
\* as processed like one whose mark succeeded, and the loop goes on with
\* the remaining events: in a call that ran to its end every later user
\* message reached the dedup check.
C24_MarkFailureNotEscalated ==
    /\ [](\A c \in calls :
            (c.op = "MarkProcessed" /\ c.res = "err") =>
               /\ Call(c.r, c.i, "SaveMessage", "ok") \in calls
               /\ MessagesWithId(GetMessageID(EventKey(c.r, c.i))) # {}
               /\ c.i \in ReturnedNil(c.r)
               /\ tasks[c.r].i > c.i \/ tasks[c.r].end = "completed"
               /\ tasks[c.r].end = "completed" =>
                     \A j \in UserIndexes(c.r) :
                        j > c.i => \E d \in CallsFor(c.r, j) : d.op = "IsDuplicate")
    /\ [](\A r \in ReqIds : tasks[r].processedCount = Cardinality(ReturnedNil(r)))
    /\ [][messages \subseteq messages']_vars

\* the mark of the first of two user messages failed; both messages are
\* saved and counted, only the second one is marked
C24_Witness ==
    \E r \in ReqIds :
        /\ tasks[r].end = "completed"
        /\ tasks[r].processedCount = 2
        /\ Call(r, 1, "MarkProcessed", "err") \in calls
        /\ Call(r, 2, "MarkProcessed", "ok") \in calls
        /\ MessagesWithId("m1") # {} /\ MessagesWithId("m2") # {}
        /\ dedup = MarkProcessed({}, "m2")

\* C25: every marker in the dedup store belongs to a message id of which
\* a row is persisted; MarkProcessed is called for an event only after
\* SaveMessage succeeded for that same event of that same call, and never
\* for an event whose dedup check, conversation resolution or save failed
\* or whose dedup check found a duplicate.
C25_MarkOnlyAfterSave ==
    /\ \A r \in ReqIds : \A i \in 1..Len(RawEvents(r)) :
          IsDuplicate(dedup, GetMessageID(EventKey(r, i))) =>
             MessagesWithId(GetMessageID(EventKey(r, i))) # {}
    /\ Cardinality(dedup) <= Cardinality(messages)
    /\ \A c \in calls :
          c.op = "MarkProcessed" =>
             /\ Call(c.r, c.i, "SaveMessage", "ok") \in calls
             /\ Call(c.r, c.i, "IsDuplicate", "false") \in calls
             /\ \A d \in CallsFor(c.r, c.i) : ~Failed(d)
    /\ \A r \in ReqIds :
          tasks[r].pc = "MarkProcessed" =>
             Call(r, tasks[r].i, "SaveMessage", "ok") \in calls

\* the first message of a call was saved and marked, the save of the
\* second one failed: one row, one marker, none for the second message
C25_Witness ==
    \E r \in ReqIds :
        /\ tasks[r].end = "completed"
        /\ Call(r, 1, "MarkProcessed", "ok") \in calls
        /\ Call(r, 2, "SaveMessage", "err") \in calls
        /\ IsDuplicate(dedup, "m1") /\ ~IsDuplicate(dedup, "m2")
        /\ MessagesWithId("m1") # {} /\ MessagesWithId("m2") = {}

\* the step of the dispatch task of call r that is due
DispatchStep(r) ==
    \/ processMessage_IsDuplicate(r)
    \/ processMessage_Select(r)
    \/ processMessage_Insert(r)
    \/ processMessage_SaveMessage(r)
    \/ processMessage_MarkProcessed(r)

\* C26: every ProcessWebhook call starts one audit-log save, at its start
\* and whether or not the payload parses; the save runs on its own (the
\* call does not wait for it), is made once, and writes a row with status
\* 'pending' and retry count 0; whether it is still waiting, returned an
\* error or panicked, the dispatch task of the call and of every other
\* call can take its next step, and the save itself changes neither the
\* task nor the dedup, conversation and message stores.
C26_AuditSaveDetached ==
    /\ [](\A r \in ReqIds :
            /\ tasks[r].pc \in {"none", "start"} <=> audit[r] = "none"
            /\ tasks[r].pc \notin {"none", "start", "done"} => ENABLED DispatchStep(r))
    /\ [](\A row \in webhook_logs : row.status = "pending" /\ row.retry_count = 0)
    /\ [](Cardinality(webhook_logs) =
             Cardinality({r \in ReqIds : audit[r] = "ok"}))
    /\ [][\A r \in ReqIds :
            audit'[r] # audit[r] =>
               \/ audit[r] = "none" /\ tasks[r].pc = "start" /\ audit'[r] = "spawned"
               \/ /\ audit[r] = "spawned" /\ audit'[r] \in {"ok", "err", "panic"}
                  /\ UNCHANGED <<reqs, tasks, calls, conversations, messages, dedup>>
                  /\ alive']_vars

\* the audit save of one call panicked and that call saved its message;
\* the audit save of another call, whose payload did not parse, has not
\* run yet although the call is over
C26_Witness ==
    \E a, b \in ReqIds :
        /\ audit[a] = "panic"
        /\ tasks[a].end = "completed" /\ tasks[a].processedCount = 1
        /\ a \in tasks[b].after
        /\ audit[b] = "spawned"
        /\ tasks[b].end = "parse_failed"
        /\ webhook_logs = {}

\* C27: an attempt answered with a status other than 200 and a parseable
\* error body returns TokenExpired for code 190, RateLimited for 4, 17, 32
\* and 613, PermissionDenied for 10, 200 and 299, and for every other code
\* (100 included) an error after which SendReply sleeps and tries again
\* while attempts are left; a status other than 200 with an unparseable
\* body is such an error too, and a 200 is success whatever its body.
C27_ErrorCodeMapping ==
    \A k \in 1..Len(send.log) :
        send.log[k].kind = "attempt" =>
           LET resp == send.log[k].resp
               err == send.log[k].err
               retried == \/ k < Len(send.log) /\ send.log[k + 1].kind = "sleep"
                          \/ k = Len(send.log) /\ send.pc = "sleep"
           IN /\ (resp.net /\ resp.status # 200 /\ resp.parses) =>
                    /\ resp.code = 190 <=> err = "ErrTokenExpired"
                    /\ resp.code \in {4, 17, 32, 613} <=> err = "ErrRateLimited"
                    /\ resp.code \in {10, 200, 299} <=> err = "ErrPermissionDenied"
                    /\ resp.code \notin {190, 4, 17, 32, 613, 10, 200, 299} <=>
                          err = "other"
              /\ (resp.net /\ resp.status # 200 /\ ~resp.parses) => err = "other"
              /\ (resp.net /\ resp.status = 200) => err = "nil"
              /\ (err = "other" /\ send.log[k].n < maxRetries) => retried

\* code 100 was retried, a 500 without error object was retried, then
\* code 299 ended the call with PermissionDenied
C27_Witness ==
    /\ Len(Attempts) = 3
    /\ Attempts[1].resp.code = 100 /\ Attempts[1].err = "other"
    /\ Attempts[2].resp.status = 500 /\ Attempts[2].resp.parses
    /\ Attempts[3].resp.code = 299 /\ Attempts[3].err = "ErrPermissionDenied"
    /\ Returned

\* the page that owns the conversation reply request q is about
OwningPage(q) ==
    {c.page_id : c \in {x \in conversations : x.id = replies[q].conversation_id}}

\* C28: a reply whose send failed with RateLimited, PermissionDenied or
\* after three attempts is answered without DeactivatePage being called;
\* DeactivatePage is called only by a request whose send reported
\* TokenExpired and only for the page that owns its conversation, and no
\* other step of the reply handler changes any page's active flag.
C28_DeactivateOnlyOnExpiry ==
    /\ [](\A q \in ReplyIds :
            replies[q].pc = "DeactivatePage" =>
               /\ replies[q].err = "ErrTokenExpired"
               /\ OwningPage(q) = {replies[q].pageID})
    /\ [](\A p \in DOMAIN pages :
            ~pages[p].is_active =>
               \E q \in ReplyIds :
                  /\ replies[q].pc = "done" /\ replies[q].err = "ErrTokenExpired"
                  /\ replies[q].pageID = p)
    /\ [][\A q \in ReplyIds :
            replies'[q] # replies[q] =>
               \/ pages' = pages
               \/ /\ replies[q].pc = "DeactivatePage"
                  /\ pages' = DeactivatePage(pages, replies[q].pageID)]_vars
    /\ [][\A q \in ReplyIds :
            ( /\ replies'[q].pc = "done" /\ replies[q].pc # "done"
              /\ replies'[q].err \in {"ErrRateLimited", "ErrPermissionDenied",
                                      "failed after 3 attempts"} ) =>
               /\ pages' = pages
               /\ replies[q].pc = "SendReply"
               /\ replies'[q].status \in {429, 403, 500}]_vars

\* one reply was rate limited and left the page active; the next one met
\* the expired token and deactivated that page, and only that page
C28_Witness ==
    /\ replies[1].pc = "done" /\ replies[1].err = "ErrRateLimited"
    /\ replies[1].status = 429
    /\ replies[2].pc = "done" /\ replies[2].err = "ErrTokenExpired"
    /\ ~pages["p1"].is_active /\ pages["p2"].is_active

StatusOf(rows, id) == {c.status : c \in {x \in rows : x.id = id}}

\* C29: MarkConversationAsRead turns 'unread' into 'read' and leaves a
\* 'read' or 'archived' conversation, and every other conversation, as it
\* is; applied twice it gives what it gives applied once; and no step of a
\* dispatch task or of a reply request changes the status of an existing
\* conversation, so none moves a conversation from 'read' back to 'unread'.
C29_MarkAsRead ==
    /\ [](\A id \in OpenIds :
            LET once == MarkConversationAsRead(conversations, id)
            IN /\ MarkConversationAsRead(once, id) = once
               /\ \A c \in conversations :
                     StatusOf(once, c.id) =
                        IF c.id = id /\ c.status = "unread" THEN {"read"}
                        ELSE {c.status})
    /\ [][\A c \in conversations :
            \/ StatusOf(conversations', c.id) = {c.status}
            \/ /\ c.status = "unread"
               /\ StatusOf(conversations', c.id) = {"read"}
               /\ opens' # opens]_vars
    /\ [][(tasks' # tasks \/ replies' # replies) =>
            \A c \in conversations :
               StatusOf(conversations', c.id) = {c.status}]_vars

\* the admin opened conversation 1 twice, a message arriving in between:
\* the chat is 'read' and stayed so, the other one is still 'archived'
C29_Witness ==
    /\ Len(opens) = 2
    /\ opens[1].id = 1 /\ opens[1].failed = "" /\ opens[1].count = 1
    /\ opens[2].id = 1 /\ opens[2].failed = "" /\ opens[2].count = 2
    /\ StatusOf(conversations, 1) = {"read"}
    /\ StatusOf(conversations, 2) = {"archived"}
    /\ tasks[1].end = "completed"

\* the conversation rows of the triple of event i of call r
RowsOfEvent(r, i) ==
    ConversationsOf(DefaultTenantID, EventKey(r, i).Sender, EventKey(r, i).Recipient)

\* C30 as stated: a GetOrCreateByPlatformID call whose lookup found the
\* conversation makes no insert; one whose lookup failed makes no insert
\* and nothing else for its event; one whose lookup found nothing, the
\* database executing its insert, has inserted the one conversation of the
\* triple, with status 'unread' and no tags, and returns the id of that row.
C30_GetOrCreate ==
    \A c \in calls :
        c.op = "Select" =>
           /\ c.res = "hit" => \A d \in CallsFor(c.r, c.i) : d.op # "Insert"
           /\ c.res = "err" => \A d \in CallsFor(c.r, c.i) : Stage(d.op) <= Stage("Select")
           /\ (c.res = "miss" /\ \E d \in CallsFor(c.r, c.i) :
                                    d.op = "Insert" /\ d.res \in {"ok", "conflict"}) =>
                 /\ Call(c.r, c.i, "Insert", "ok") \in calls
                 /\ \A row \in RowsOfEvent(c.r, c.i) :
                       row.status = "unread" /\ row.tags = <<>>
                 /\ Cardinality(RowsOfEvent(c.r, c.i)) = 1

\* the dispatch tasks of a and b ran at the same time
Concurrent(a, b) ==
    /\ a # b
    /\ tasks[a].pc # "none" /\ tasks[b].pc # "none"
    /\ a \notin tasks[b].after /\ b \notin tasks[a].after

\* C31 as stated: when two dispatch tasks process events with the same
\* message id at the same time, no store call failing, at most one message
\* row with that external id is persisted.
C31_AtomicDedup ==
    \A a, b \in ReqIds :
        (Concurrent(a, b) /\ faults = 0) =>
           \A i \in UserIndexes(a), j \in UserIndexes(b) :
              GetMessageID(EventKey(a, i)) = GetMessageID(EventKey(b, j)) =>
                 Cardinality(MessagesWithId(GetMessageID(EventKey(a, i)))) <= 1

StoreOps == {"IsDuplicate", "Select", "Insert", "SaveMessage", "MarkProcessed"}

\* C32: the events of a call are taken in the order of the envelope,
\* entry after entry and event after event: a store call is made for the
\* event the loop stands at, after every call made for an earlier event
\* and after the earlier steps for the same event, never for an event the
\* loop has left, whether that event was saved, failed or was skipped;
\* and the event at position i of the loop is the i-th event of the
\* envelope.
C32_ArrayOrder ==
    /\ [](\A c \in calls :
            /\ c.i \in 1..Len(RawEvents(c.r))
            /\ c.op \in StoreOps <=> ~Filtered(RawEvents(c.r)[c.i])
            /\ (c.op = "SaveMessage" /\ c.res = "ok") =>
                  MessagesWithId(DecodeString(RawEvents(c.r)[c.i].message.mid)) # {}
            /\ c.i <= tasks[c.r].i)
    /\ [](\A r \in ReqIds : \A i \in 1..Len(RawEvents(r)) :
            (tasks[r].pc # "none" /\ i < tasks[r].i /\ i <= Len(Events(r))) =>
               CallsFor(r, i) # {})
    /\ [][\A c \in calls' \ calls :
            /\ \A d \in CallsOf(c.r) :
                  d.i < c.i \/ (d.i = c.i /\ Stage(d.op) < Stage(c.op))
            /\ c.op \in StoreOps => c.i = tasks[c.r].i
            /\ c.op = "classify" => c.i >= tasks[c.r].i]_vars

\* a call with two entries, the first holding an echo and a delivery
\* receipt, the second a user message whose save failed, ran to its end
C32_Witness ==
    \E r \in ReqIds :
        /\ Len(reqs[r].body.entry) = 2
        /\ tasks[r].end = "completed"
        /\ Call(r, 1, "classify", "skipped") \in calls
        /\ Call(r, 2, "classify", "skipped") \in calls
        /\ Call(r, 3, "SaveMessage", "err") \in calls

\* a step of the dispatch goroutine of call r
TaskStep(r) == ProcessWebhook_Start(r) \/ DispatchStep(r)

\* The goroutine of every call is scheduled and each store call it makes
\* returns.
SpecDispatchFair == Spec /\ \A r \in ReqIds : WF_vars(TaskStep(r))

\* C33: every dispatch task that was started finishes, at the count log,
\* at the parse-failure return or in a recovered panic; it runs after the
\* handler has returned, and no store call of it fails because of that:
\* a store call fails only when the store fails or rejects the row.
C33_TaskRunsToCompletion ==
    /\ \A r \in ReqIds : (tasks[r].pc = "start") ~> (tasks[r].pc = "done")
    /\ [](\A r \in ReqIds :
            /\ tasks[r].pc # "none" => reqs[r].st = "return"
            /\ tasks[r].pc = "done" =>
                  tasks[r].end \in {"completed", "parse_failed", "panicked"})
    /\ [](faults = 0 =>
            \A c \in calls :
               c.res \in {"err", "panic"} =>
                  /\ c.op = "SaveMessage" /\ c.res = "err"
                  /\ GetMessageType(EventKey(c.r, c.i)) \notin MessageTypes)

\* both messages of a call were saved after the handler had returned
C33_Witness ==
    \E r \in ReqIds :
        /\ reqs[r].st = "return" /\ reqs[r].status = 200
        /\ tasks[r].end = "completed" /\ tasks[r].processedCount = 2
        /\ faults = 0
        /\ Cardinality(messages) = 2

\* C34 as stated: every message row written by the dispatch of user
\* messages has a type among text, image, file, sticker and voice.
C34_TypeInEnum ==
    \A m \in messages : m.sender_type = "user" => m.type \in MessageTypes

\* C35 as stated: when a store call made for one event of a call panics,
\* every later user-message event of the same call still gets its dedup
\* check once the task has ended.
C35_PanicLeavesLaterEvents ==
    \A r \in ReqIds :
        tasks[r].pc = "done" =>
           \A c \in CallsOf(r) :
              c.res = "panic" =>
                 \A i \in UserIndexes(r) :
                    i > c.i => \E d \in CallsFor(r, i) : d.op = "IsDuplicate"

\* the events of call r that were found to be duplicates
DuplicatesOf(r) == {c \in CallsOf(r) : c.op = "IsDuplicate" /\ c.res = "true"}
\* the events of call r whose message this call persisted
PersistedBy(r) == {c \in CallsOf(r) : c.op = "SaveMessage" /\ c.res = "ok"}

\* C36 as stated: at the end of a call whose payload parsed, processed is
\* the number of events this call persisted and skipped is the number of
\* events that were filtered or found to be duplicates.
C36_Counts ==
    \A r \in ReqIds :
        tasks[r].end = "completed" =>
           /\ tasks[r].processedCount = Cardinality(PersistedBy(r))
           /\ tasks[r].skippedCount =
                 Cardinality({i \in 1..Len(RawEvents(r)) : Filtered(RawEvents(r)[i])})
                 + Cardinality(DuplicatesOf(r))

\* C37 as stated: an event is skipped as a duplicate only when the same
\* message was persisted by an earlier dedup-checked event; two different
\* user messages are never taken for one another, also when neither
\* carries a message id.
C37_DedupOnlySameMessage ==
    \A c \in calls :
        (c.op = "IsDuplicate" /\ c.res = "true") =>
           \E d \in calls :
              /\ d.op = "SaveMessage" /\ d.res = "ok"
              /\ <<d.r, d.i>> # <<c.r, c.i>>
              /\ EventKey(d.r, d.i) = EventKey(c.r, c.i)

AgentRows == {m \in messages : m.sender_type = "agent"}
\* the send of reply q returned nil: no error kept, last attempt not retried
SendSucceeded(q) ==
    /\ replies[q].err = ""
    /\ \E x \in SendsOf(q) : x.n = replies[q].attempt /\ x.backoff = 0
\* reply q is past its SaveOutboundMessage call
PastSave(q) ==
    \/ replies[q].pc = "UpdateConversationLastMessage"
    \/ replies[q].pc = "done" /\ replies[q].status = 200

\* C38: the reply handler writes the 'agent' row and refreshes the
\* conversation only in the two steps that follow a send that returned
\* nil; a request that failed at the lookup of the conversation, at the
\* lookup of the token or at the send changes neither table; and a request
\* whose send succeeded calls SaveOutboundMessage once, for one row.
C38_WriteOnlyAfterSend ==
    /\ [][\A q \in ReplyIds :
            ( /\ replies'[q] # replies[q]
              /\ (messages' # messages \/ conversations' # conversations) ) =>
               /\ SendSucceeded(q)
               /\ \/ /\ replies[q].pc = "SaveOutboundMessage"
                     /\ conversations' = conversations
                     /\ messages' \ messages \subseteq
                           {m \in messages' : /\ m.sender_type = "agent"
                                              /\ m.content = replies[q].text
                                              /\ m.conversation_id =
                                                    replies[q].conversation_id}
                     /\ Cardinality(messages') = Cardinality(messages) + 1
                  \/ /\ replies[q].pc = "UpdateConversationLastMessage"
                     /\ messages' = messages]_vars
    /\ [][\A q \in ReplyIds :
            /\ replies'[q].pc = "SaveOutboundMessage" =>
                  replies[q].pc \in {"SendReply", "SaveOutboundMessage"}
            /\ (replies[q].pc = "SaveOutboundMessage" /\ replies'[q] # replies[q]) =>
                  replies'[q].pc = "UpdateConversationLastMessage"
            /\ replies'[q].pc = "SendReply" =>
                  replies[q].pc \in {"GetPageAccessToken", "SendReply"}]_vars
    /\ [](Cardinality(AgentRows) <= Cardinality({q \in ReplyIds : PastSave(q)}))
    /\ [](faults = 0 =>
            Cardinality(AgentRows) = Cardinality({q \in ReplyIds : PastSave(q)}))
    /\ []((\A q \in ReplyIds : ~PastSave(q)) =>
            /\ AgentRows = {}
            /\ \A c \in conversations :
                  c.last_message_content = Absent /\ c.last_message_at = 0)

\* the first reply was refused by the platform and wrote nothing; the
\* second was sent, and its row and the snippet were written
C38_Witness ==
    /\ replies[1].pc = "done" /\ replies[1].status = 403
    /\ replies[2].pc = "done" /\ replies[2].status = 200
    /\ Cardinality(AgentRows) = 1
    /\ \E c \in conversations : c.id = 1 /\ c.last_message_content = "hi"

\* C39: Write can always be taken by a goroutine that logs, whatever Run
\* and the clients do, also when the broadcast buffer is full; it returns
\* (len(p), nil) in every case; with room the trimmed message is queued,
\* without room it is dropped and the buffer is left as it is.
C39_WriteNeverBlocks ==
    /\ [](hub.nwrites < MaxWrites => ENABLED LogHub_Write)
    /\ [](Len(hub.broadcast) <= broadcastBufferSize)
    /\ [](hub.lastWrite # NoWrite =>
            /\ hub.lastWrite.n = Len(hub.lastWrite.p)
            /\ hub.lastWrite.err = "nil"
            /\ hub.lastWrite.queued = ~hub.lastWrite.full)
    /\ [][hub'.nwrites # hub.nwrites =>
            /\ hub'.lastWrite.p \in Payloads
            /\ hub'.conn = hub.conn /\ hub'.clients = hub.clients
            /\ IF Len(hub.broadcast) >= broadcastBufferSize
               THEN hub'.broadcast = hub.broadcast /\ ~hub'.lastWrite.queued
               ELSE /\ hub'.broadcast =
                         Append(hub.broadcast, TrimRight(hub'.lastWrite.p))
                    /\ hub'.lastWrite.queued]_vars

\* Run has taken nothing from the full buffer and the third Write returned
\* after dropping its message
C39_Witness ==
    /\ hub.nwrites = 3
    /\ Len(hub.broadcast) = broadcastBufferSize
    /\ hub.lastWrite.full /\ ~hub.lastWrite.queued
    /\ hub.lastWrite.n = Len(hub.lastWrite.p) /\ hub.lastWrite.err = "nil"
    /\ hub.lastBroadcast = NoBroadcast

\* C40: Run can always take the next message of the broadcast channel,
\* also when a client's buffer is full; taking it appends the message to
\* the send channel of every registered client with room and leaves the
\* full ones and the unregistered ones as they are; a send channel is
\* closed at most once, a registered client's channel is open, and nothing
\* is appended to a closed channel.
C40_BroadcastSkipsFullClient ==
    /\ [](hub.broadcast # <<>> => ENABLED Run_Broadcast)
    /\ [][Len(hub'.broadcast) < Len(hub.broadcast) =>
            /\ hub'.broadcast = Tail(hub.broadcast)
            /\ \A c \in ClientIds :
                  hub'.conn[c].send =
                     IF c \in hub.clients /\ Len(hub.conn[c].send) < clientBufferSize
                     THEN Append(hub.conn[c].send, Head(hub.broadcast))
                     ELSE hub.conn[c].send]_vars
    /\ [](\A c \in ClientIds :
            /\ hub.conn[c].closes <= 1
            /\ hub.conn[c].closed <=> hub.conn[c].pc = "gone"
            /\ c \in hub.clients <=> hub.conn[c].pc \in {"open", "unregistering"}
            /\ Len(hub.conn[c].send) <= clientBufferSize)
    /\ [](~hub.panicked)
    /\ [][\A c \in ClientIds :
            /\ hub.conn[c].closed =>
                  /\ hub'.conn[c].closed
                  /\ Len(hub'.conn[c].send) <= Len(hub.conn[c].send)
            /\ hub'.conn[c].closes >= hub.conn[c].closes]_vars

\* a message was skipped for the client whose buffer was full and queued
\* for the other one
C40_Witness ==
    /\ hub.lastBroadcast.skipped = {1}
    /\ hub.lastBroadcast.delivered = {2}
    /\ hub.lastBroadcast.msg \in {hub.conn[2].send[k] : k \in 1..Len(hub.conn[2].send)}
    /\ Len(hub.conn[1].send) = clientBufferSize

====
